---- MODULE Spec2Model ----
(***************************************************************************)
(* Model of the memov snapshot engine (MemovManager) and of the            *)
(* interaction recorder (MemMCPTools.snap).                                *)
(*                                                                         *)
(* The object store (memov.core.git.GitManager) is not part of the source  *)
(* tree; its operations are modelled from the interface the specification  *)
(* gives in section 4.A and from the way the manager calls them.           *)
(***************************************************************************)
EXTENDS Integers, Sequences, FiniteSets, TLC

\* ------------------------------------------------------------------ bounds
MaxCommits == 3
MaxEdits == 3

\* --------------------------------------------------------------- universe
MemIgnore == ".memignore"
Paths == {MemIgnore, "a", "b"}
\* A file of the control directory and a file of the host SCM directory; the
\* scans of the filter are over Paths and these.
ControlPaths == {".mem/x", ".git/x"}
ScanPaths == Paths \cup ControlPaths
\* The paths with a component whose name starts with a dot.
HiddenPaths == {p \in ScanPaths : p = MemIgnore \/ p \in ControlPaths}

\* A workspace file is absent or holds one of two contents. Read as a
\* .memignore, a content is the one pattern line it holds.
Absent == "<absent>"
\* The pattern init() writes into a fresh .memignore.
DefaultIgnore == ".*"
Contents == {DefaultIgnore, "a"}

\* Falsy commit id ("" or None).
NoCommit == 0
\* The null value of catalog["current"].
None == "None"
Main == "main"

Outcomes == {"ok", "empty", "raise"}
\* The points at which the process can be interrupted during a commit: after
\* the commit object is written, and after branches.json is saved.
Cuts == {"cut_store", "cut_refs"}

\* The texts of a pending write that get a record group each.
Roles == {"prompt", "response", "agent_plan"}

\* No chunk_text call is in progress.
NoCall == [pc |-> "none"]

\* The two processes that may run a commit side by side, and a process that
\* is not running one.
Procs == {1, 2}
IdleProc == [pc |-> "idle"]
Idle == [p \in Procs |-> IdleProc]

VARIABLES
    ws,        \* workspace: path -> content (Absent when the file is missing)
    repo,      \* TRUE when .mem/memov.git exists
    commits,   \* object store: sequence of commits, id = index
    head,      \* refs/memov/HEAD (NoCommit when unresolvable)
    cat,       \* branches.json: [exists, current, branches]
    vdb,       \* the records of the vector store (.mem/vectordb)
    edits,     \* number of workspace edits made so far
    last,      \* the latest engine operation that changed the world
    ck,        \* the chunk_text call in progress (NoCall when there is none)
    procs      \* the commit in progress of each of two concurrent processes

vars == <<ws, repo, commits, head, cat, vdb, edits, last, ck, procs>>

\* ----------------------------------------------------------- object store
\* git hash-object: the id of a blob is a function of its bytes only.
HashObject(c) == <<"blob", c>>
\* The bytes stored under a blob id (git cat-file / git archive).
BlobContent(b) == b[2]

EmptyTree == [p \in {} |-> HashObject(Absent)]

IsCommit(cs, c) == c \in 1..Len(cs)

\* GitManager.get_files_by_commit: the paths tracked at a commit.
GetFilesByCommit(cs, c) == IF IsCommit(cs, c) THEN DOMAIN cs[c].tree ELSE {}

\* GitManager.get_files_and_blobs_by_commit: path -> blob id at a commit.
GetFilesAndBlobsByCommit(cs, c) == IF IsCommit(cs, c) THEN cs[c].tree ELSE EmptyTree

\* GitManager.get_commit_history: the commit and all its ancestors.
RECURSIVE GetCommitHistory(_, _)
GetCommitHistory(cs, c) ==
    IF ~IsCommit(cs, c) THEN {}
    ELSE {c} \cup GetCommitHistory(cs, cs[c].parent)

\* Writing a commit object: parent is the current refs/memov/HEAD.
WriteCommit(cs, tree, parent, op, byUser) ==
    Append(cs, [tree |-> tree, parent |-> parent, op |-> op, by_user |-> byUser])

\* GitManager.update_ref: an id that names no object is rejected.
UpdateRef(cs, h, c) == IF IsCommit(cs, c) THEN c ELSE h

\* ---------------------------------------------------------- ignore matcher
\* The one text of the model that has two lines.
TwoLines == ".*+.memignore"

\* The lines of a .memignore with content c (none when it is absent).
LinesOf(c) ==
    IF c = Absent THEN <<>>
    ELSE IF c = TwoLines THEN <<".*", MemIgnore>>
    ELSE <<c>>

\* MemovManager._load_memignore: the lines of the file, then the two
\* patterns that are always appended.
PatternsOf(c) == LinesOf(c) \o <<".mem/", ".git/">>

\* A pattern that re-includes what it matches.
Negated(pat) == pat = "!.mem/"

\* gitwildmatch on the paths of the model: ".*" matches every path with a
\* hidden component, "*" every path, a directory pattern the files below
\* the directory, a literal pattern the path of that name.
MatchPattern(pat, p) ==
    IF pat = ".*" THEN p \in HiddenPaths
    ELSE IF pat = "*" THEN TRUE
    ELSE IF pat \in {".mem/", "!.mem/"} THEN p = ".mem/x"
    ELSE IF pat = ".git/" THEN p = ".git/x"
    ELSE pat = p

\* PathSpec.match_file over the patterns of _load_memignore: the last
\* pattern that matches the path decides.
MatchFile(w, p) ==
    \E ps \in {PatternsOf(w[MemIgnore])} : \E i \in DOMAIN ps :
        /\ MatchPattern(ps[i], p)
        /\ ~Negated(ps[i])
        /\ \A j \in DOMAIN ps : j > i => ~MatchPattern(ps[j], p)

\* The inner filter() without the exemption of .memignore.
FilterOut_NoExemption(w, tracked, useTracked, p) ==
    IF useTracked /\ p \in tracked THEN TRUE
    ELSE MatchFile(w, p)

\* The inner filter() of _filter_new_files: TRUE when the path is dropped.
FilterOut(w, tracked, useTracked, p) ==
    IF useTracked /\ p \in tracked THEN TRUE
    ELSE IF p = MemIgnore THEN FALSE
    ELSE MatchFile(w, p)

\* MemovManager._filter_new_files over the files F (the project directory
\* is the walk over all of Paths).
FilterNewFiles(w, F, tracked, useTracked) ==
    {p \in F : w[p] # Absent /\ ~FilterOut(w, tracked, useTracked, p)}

\* ------------------------------------------------------------- ref catalog
NoCatalog == [exists |-> FALSE, current |-> None, branches |-> <<>>]

BranchNames(c) == {c.branches[i].name : i \in DOMAIN c.branches}
HasBranch(c, n) == n \in BranchNames(c)
TipOf(c, n) == (CHOOSE i \in DOMAIN c.branches : c.branches[i].name = n)
TipCommit(c, n) == c.branches[TipOf(c, n)].tip
Tips(c) == {c.branches[i].tip : i \in DOMAIN c.branches}

SetTip(c, n, t) ==
    [c EXCEPT !.branches = [i \in DOMAIN c.branches |->
        IF c.branches[i].name = n THEN [name |-> n, tip |-> t] ELSE c.branches[i]]]

DevelopName(i) == "develop/" \o ToString(i)

\* _next_develop_branch numbering by the number of branches.
NextDevelopBranch_ByCount(c) == DevelopName(Len(c.branches))

\* MemovManager._next_develop_branch
NextDevelopBranch(c) ==
    DevelopName(CHOOSE i \in 0..Len(c.branches) :
        /\ ~HasBranch(c, DevelopName(i))
        /\ \A j \in 0..(i - 1) : HasBranch(c, DevelopName(j)))

\* MemovManager._validate_and_fix_branches
ValidateAndFixBranches(c, h) ==
    IF ~c.exists THEN c
    ELSE
        LET c1 == IF HasBranch(c, Main) /\ TipCommit(c, Main) = NoCommit /\ h # NoCommit
                  THEN SetTip(c, Main, h) ELSE c
        IN IF c1.current # None /\ ~HasBranch(c1, c1.current)
           THEN [c1 EXCEPT !.current = Main] ELSE c1

\* _update_branch that advances the branch found at HEAD without adopting
\* it as current.
UpdateBranch_NoAdopt(cs, c, h, new, reset) ==
    LET newHead == UpdateRef(cs, h, new) IN
    IF ~c.exists THEN
        [cat |-> [exists |-> TRUE, current |-> Main,
                  branches |-> <<[name |-> Main, tip |-> new]>>],
         head |-> newHead]
    ELSE IF reset THEN
        LET c1 == IF c.current # None /\ HasBranch(c, c.current) /\ h # NoCommit
                  THEN SetTip(c, c.current, h) ELSE c
        IN [cat |-> [c1 EXCEPT !.current = None], head |-> newHead]
    ELSE IF c.current # None /\ HasBranch(c, c.current) THEN
        [cat |-> SetTip(c, c.current, new), head |-> newHead]
    ELSE
        LET match == {i \in DOMAIN c.branches : c.branches[i].tip = h} IN
        IF match # {} THEN
            LET i == CHOOSE k \in match : \A m \in match : k <= m
                n == c.branches[i].name
            IN [cat |-> SetTip(c, n, new), head |-> newHead]
        ELSE IF HasBranch(c, Main) /\ TipCommit(c, Main) = NoCommit THEN
            [cat |-> [SetTip(c, Main, new) EXCEPT !.current = Main], head |-> newHead]
        ELSE
            LET n == NextDevelopBranch(c) IN
            [cat |-> [c EXCEPT !.current = n,
                               !.branches = Append(c.branches, [name |-> n, tip |-> new])],
             head |-> newHead]

\* _update_branch that names the current branch after inserting the new
\* develop branch.
UpdateBranch_CurrentAfterInsert(cs, c, h, new, reset) ==
    LET newHead == UpdateRef(cs, h, new) IN
    IF ~c.exists THEN
        [cat |-> [exists |-> TRUE, current |-> Main,
                  branches |-> <<[name |-> Main, tip |-> new]>>],
         head |-> newHead]
    ELSE IF reset THEN
        LET c1 == IF c.current # None /\ HasBranch(c, c.current) /\ h # NoCommit
                  THEN SetTip(c, c.current, h) ELSE c
        IN [cat |-> [c1 EXCEPT !.current = None], head |-> newHead]
    ELSE IF c.current # None /\ HasBranch(c, c.current) THEN
        [cat |-> SetTip(c, c.current, new), head |-> newHead]
    ELSE
        LET match == {i \in DOMAIN c.branches : c.branches[i].tip = h} IN
        IF match # {} THEN
            LET i == CHOOSE k \in match : \A m \in match : k <= m
                n == c.branches[i].name
            IN [cat |-> [SetTip(c, n, new) EXCEPT !.current = n], head |-> newHead]
        ELSE IF HasBranch(c, Main) /\ TipCommit(c, Main) = NoCommit THEN
            [cat |-> [SetTip(c, Main, new) EXCEPT !.current = Main], head |-> newHead]
        ELSE
            LET n == NextDevelopBranch(c)
                c1 == [c EXCEPT !.branches = Append(c.branches, [name |-> n, tip |-> new])]
            IN [cat |-> [c1 EXCEPT !.current = NextDevelopBranch(c1)], head |-> newHead]

\* _update_branch that opens a new catalog with a develop branch.
UpdateBranch_FirstOnDevelop(cs, c, h, new, reset) ==
    LET newHead == UpdateRef(cs, h, new) IN
    IF ~c.exists THEN
        [cat |-> [exists |-> TRUE, current |-> DevelopName(0),
                  branches |-> <<[name |-> DevelopName(0), tip |-> new]>>],
         head |-> newHead]
    ELSE IF reset THEN
        LET c1 == IF c.current # None /\ HasBranch(c, c.current) /\ h # NoCommit
                  THEN SetTip(c, c.current, h) ELSE c
        IN [cat |-> [c1 EXCEPT !.current = None], head |-> newHead]
    ELSE IF c.current # None /\ HasBranch(c, c.current) THEN
        [cat |-> SetTip(c, c.current, new), head |-> newHead]
    ELSE
        LET match == {i \in DOMAIN c.branches : c.branches[i].tip = h} IN
        IF match # {} THEN
            LET i == CHOOSE k \in match : \A m \in match : k <= m
                n == c.branches[i].name
            IN [cat |-> [SetTip(c, n, new) EXCEPT !.current = n], head |-> newHead]
        ELSE IF HasBranch(c, Main) /\ TipCommit(c, Main) = NoCommit THEN
            [cat |-> [SetTip(c, Main, new) EXCEPT !.current = Main], head |-> newHead]
        ELSE
            LET n == NextDevelopBranch(c) IN
            [cat |-> [c EXCEPT !.current = n,
                               !.branches = Append(c.branches, [name |-> n, tip |-> new])],
             head |-> newHead]

\* _update_branch that puts every commit on a new develop branch, also when
\* current names a live branch.
UpdateBranch_ForkOnCommit(cs, c, h, new, reset) ==
    LET newHead == UpdateRef(cs, h, new) IN
    IF ~c.exists THEN
        [cat |-> [exists |-> TRUE, current |-> Main,
                  branches |-> <<[name |-> Main, tip |-> new]>>],
         head |-> newHead]
    ELSE IF reset THEN
        LET c1 == IF c.current # None /\ HasBranch(c, c.current) /\ h # NoCommit
                  THEN SetTip(c, c.current, h) ELSE c
        IN [cat |-> [c1 EXCEPT !.current = None], head |-> newHead]
    ELSE
        LET n == NextDevelopBranch(c) IN
        [cat |-> [c EXCEPT !.current = n,
                           !.branches = Append(c.branches, [name |-> n, tip |-> new])],
         head |-> newHead]

\* _update_branch that advances every branch found at HEAD, not only the
\* first one.
UpdateBranch_AllMatching(cs, c, h, new, reset) ==
    LET newHead == UpdateRef(cs, h, new) IN
    IF ~c.exists THEN
        [cat |-> [exists |-> TRUE, current |-> Main,
                  branches |-> <<[name |-> Main, tip |-> new]>>],
         head |-> newHead]
    ELSE IF reset THEN
        LET c1 == IF c.current # None /\ HasBranch(c, c.current) /\ h # NoCommit
                  THEN SetTip(c, c.current, h) ELSE c
        IN [cat |-> [c1 EXCEPT !.current = None], head |-> newHead]
    ELSE IF c.current # None /\ HasBranch(c, c.current) THEN
        [cat |-> SetTip(c, c.current, new), head |-> newHead]
    ELSE
        LET match == {i \in DOMAIN c.branches : c.branches[i].tip = h} IN
        IF match # {} THEN
            LET i == CHOOSE k \in match : \A m \in match : k <= m
                n == c.branches[i].name
            IN [cat |-> [c EXCEPT !.current = n,
                                  !.branches = [k \in DOMAIN c.branches |->
                                      IF k \in match
                                      THEN [name |-> c.branches[k].name, tip |-> new]
                                      ELSE c.branches[k]]],
                head |-> newHead]
        ELSE IF HasBranch(c, Main) /\ TipCommit(c, Main) = NoCommit THEN
            [cat |-> [SetTip(c, Main, new) EXCEPT !.current = Main], head |-> newHead]
        ELSE
            LET n == NextDevelopBranch(c) IN
            [cat |-> [c EXCEPT !.current = n,
                               !.branches = Append(c.branches, [name |-> n, tip |-> new])],
             head |-> newHead]

\* MemovManager._update_branch; the result is the saved catalog and HEAD.
UpdateBranch(cs, c, h, new, reset) ==
    LET newHead == UpdateRef(cs, h, new) IN
    IF ~c.exists THEN
        [cat |-> [exists |-> TRUE, current |-> Main,
                  branches |-> <<[name |-> Main, tip |-> new]>>],
         head |-> newHead]
    ELSE IF reset THEN
        LET c1 == IF c.current # None /\ HasBranch(c, c.current) /\ h # NoCommit
                  THEN SetTip(c, c.current, h) ELSE c
        IN [cat |-> [c1 EXCEPT !.current = None], head |-> newHead]
    ELSE IF c.current # None /\ HasBranch(c, c.current) THEN
        [cat |-> SetTip(c, c.current, new), head |-> newHead]
    ELSE
        LET match == {i \in DOMAIN c.branches : c.branches[i].tip = h} IN
        IF match # {} THEN
            LET i == CHOOSE k \in match : \A m \in match : k <= m
                n == c.branches[i].name
            IN [cat |-> [SetTip(c, n, new) EXCEPT !.current = n], head |-> newHead]
        ELSE IF HasBranch(c, Main) /\ TipCommit(c, Main) = NoCommit THEN
            [cat |-> [SetTip(c, Main, new) EXCEPT !.current = Main], head |-> newHead]
        ELSE
            LET n == NextDevelopBranch(c) IN
            [cat |-> [c EXCEPT !.current = n,
                               !.branches = Append(c.branches, [name |-> n, tip |-> new])],
             head |-> newHead]

\* ------------------------------------------------------------ the engine
\* The operations work on a world w = [ws, repo, commits, head, cat, vdb, pending]
\* (pending is the queue of the engine instance that runs the operation;
\* every caller, main.py and the recorder, builds a fresh instance) and
\* return [w, status, hash]. The parameter out is the outcome of the one
\* commit write the operation may attempt: "ok", "empty" (the store returns
\* a falsy id) or "raise" (the store raises).
Ret(w, status, hash) == [w |-> w, status |-> status, hash |-> hash]

\* The one element of a singleton set: The({F(x) : x \in {e}}) is F(e) with
\* e evaluated once.
The(S) == CHOOSE x \in S : TRUE

\* _add_to_pending_writes that stores the records of the commit in the
\* vector store at once instead of queueing them.
AddToPendingWrites_WriteThrough(w, op, hash, byUser, files) ==
    [w EXCEPT !.vdb = @ \cup {[commit |-> hash, role |-> role] : role \in Roles}]

\* MemovManager._add_to_pending_writes
AddToPendingWrites(w, op, hash, byUser, files) ==
    LET parent_hash == IF w.head # NoCommit /\ w.head # hash THEN w.head ELSE NoCommit
    IN [w EXCEPT !.pending = Append(@, [op |-> op, commit |-> hash,
                                        parent_hash |-> parent_hash,
                                        by_user |-> byUser, files |-> files])]

\* GitManager.write_blob_to_bare_repo: blobs of the files that are present,
\* one tree, one commit on top of HEAD.
WorkspaceTree(w, files) ==
    [p \in {q \in files : w[q] # Absent} |-> HashObject(w[p])]

\* _commit that advances the branch to the id the commit was to get although
\* the store wrote nothing.
Commit_TipFromFailedWrite(w, op, byUser, file_paths, out) ==
    LET c1 == ValidateAndFixBranches(w.cat, w.head)
        w1 == [w EXCEPT !.cat = c1]
    IN IF out = "raise" THEN Ret(w1, "failed_to_commit", NoCommit)
       ELSE IF out = "empty" THEN
           LET u == UpdateBranch(w.commits, c1, w.head, Len(w.commits) + 1, FALSE)
           IN Ret([w1 EXCEPT !.cat = u.cat, !.head = u.head], "failed_to_commit", NoCommit)
       ELSE
           LET cs == WriteCommit(w.commits, WorkspaceTree(w.ws, file_paths), w.head,
                                 op, byUser)
               u == UpdateBranch(cs, c1, w.head, Len(cs), FALSE)
           IN Ret([w1 EXCEPT !.commits = cs, !.cat = u.cat, !.head = u.head],
                  "success", Len(cs))

\* MemovManager._commit. _update_branch saves branches.json and then updates
\* refs/memov/HEAD: a process interrupted between the two leaves the first.
Commit(w, op, byUser, file_paths, out) ==
    LET c1 == ValidateAndFixBranches(w.cat, w.head)
        w1 == [w EXCEPT !.cat = c1]
    IN IF out = "raise" THEN Ret(w1, "failed_to_commit", NoCommit)
       ELSE IF out = "empty" THEN
           LET u == UpdateBranch(w.commits, c1, w.head, NoCommit, FALSE)
           IN Ret([w1 EXCEPT !.cat = u.cat, !.head = u.head], "failed_to_commit", NoCommit)
       ELSE The({ The({
              IF out = "cut_store"
              THEN Ret([w1 EXCEPT !.commits = cs], "interrupted", NoCommit)
              ELSE IF out = "cut_refs"
              THEN Ret([w1 EXCEPT !.commits = cs, !.cat = u.cat], "interrupted", NoCommit)
              ELSE Ret([w1 EXCEPT !.commits = cs, !.cat = u.cat, !.head = u.head],
                       "success", Len(cs))
              : u \in {UpdateBranch(cs, c1, w.head, Len(cs), FALSE)} })
              : cs \in {WriteCommit(w.commits, WorkspaceTree(w.ws, file_paths),
                                    w.head, op, byUser)} })

\* A partial snapshot that stores the workspace content of every tracked
\* file, as the all-files form does.
SnapshotTree_AllFromWorkspace(w, tracked, tracked_specified) ==
    LET head_file_blobs == GetFilesAndBlobsByCommit(w.commits, w.head)
    IN [p \in tracked |->
            IF w.ws[p] # Absent THEN HashObject(w.ws[p]) ELSE head_file_blobs[p]]

\* The tree track() composes, with the tracked files re-read from the
\* workspace.
TrackTree_AllFromWorkspace(w, tracked, new_files) ==
    LET head_file_blobs == GetFilesAndBlobsByCommit(w.commits, w.head)
    IN [p \in tracked \cup new_files |->
            IF w.ws[p] # Absent THEN HashObject(w.ws[p]) ELSE head_file_blobs[p]]

\* The tree track() composes on an existing HEAD (manager.py 183-218).
TrackTree(w, tracked, new_files) ==
    LET head_file_blobs == GetFilesAndBlobsByCommit(w.commits, w.head)
    IN [p \in tracked \cup new_files |->
            IF p \in new_files THEN HashObject(w.ws[p]) ELSE head_file_blobs[p]]

\* The tail shared by track() on an existing HEAD and the partial snapshot:
\* create_commit_from_tree_structure, then _validate_and_fix_branches,
\* _update_branch and _add_to_pending_writes.
CommitTree(w, tree, op, byUser, files, out) ==
    IF out = "raise" THEN Ret(w, "unknown_error", NoCommit)
    ELSE IF out = "empty" THEN Ret(w, "failed_to_commit", NoCommit)
    ELSE The({ The({
           IF out = "cut_store"
           THEN Ret([w EXCEPT !.commits = cs], "interrupted", NoCommit)
           ELSE IF out = "cut_refs"
           THEN Ret([w EXCEPT !.commits = cs, !.cat = u.cat], "interrupted", NoCommit)
           ELSE Ret(AddToPendingWrites(
                        [w EXCEPT !.commits = cs, !.cat = u.cat, !.head = u.head],
                        op, Len(cs), byUser, files),
                    "success", Len(cs))
           : u \in {UpdateBranch(cs, ValidateAndFixBranches(w.cat, w.head),
                                 w.head, Len(cs), FALSE)} })
           : cs \in {WriteCommit(w.commits, tree, w.head, op, byUser)} })

\* MemovManager.track
Track(w, F, byUser, out) ==
    IF F = {} THEN Ret(w, "success", NoCommit)
    ELSE
        LET tracked == GetFilesByCommit(w.commits, w.head)
            new_files == FilterNewFiles(w.ws, F, tracked, TRUE)
        IN IF new_files = {} THEN Ret(w, "success", NoCommit)
           ELSE IF w.head # NoCommit THEN
               CommitTree(w, TrackTree(w, tracked, new_files), "track", byUser,
                          new_files, out)
           ELSE
               LET r == Commit(w, "track", byUser, new_files, out)
               IN IF r.hash = NoCommit THEN r
                  ELSE Ret(AddToPendingWrites(r.w, "track", r.hash, byUser, new_files),
                           "success", r.hash)

\* The partial tree without the fallback to HEAD's blob: a specified file
\* that is missing from the workspace is left out.
SnapshotTree_DropMissing(w, tracked, tracked_specified) ==
    LET head_file_blobs == GetFilesAndBlobsByCommit(w.commits, w.head)
    IN [p \in {q \in tracked : q \notin tracked_specified \/ w.ws[q] # Absent} |->
            IF p \in tracked_specified
            THEN HashObject(w.ws[p]) ELSE head_file_blobs[p]]

\* The tree the partial snapshot composes (manager.py 362-392).
SnapshotTree(w, tracked, tracked_specified) ==
    LET head_file_blobs == GetFilesAndBlobsByCommit(w.commits, w.head)
    IN [p \in tracked |->
            IF p \in tracked_specified /\ w.ws[p] # Absent
            THEN HashObject(w.ws[p]) ELSE head_file_blobs[p]]

\* A snapshot whose all-files form commits every workspace file that is not
\* ignored, as rename does.
Snapshot_WithUntracked(w, all, F, byUser, out) ==
    LET tracked == GetFilesByCommit(w.commits, w.head) IN
    IF tracked = {} THEN Ret(w, "success", NoCommit)
    ELSE IF ~all THEN
        LET tracked_specified == F \cap tracked IN
        IF tracked_specified = {} THEN Ret(w, "success", NoCommit)
        ELSE CommitTree(w, SnapshotTree(w, tracked, tracked_specified), "snap",
                        byUser, tracked_specified, out)
    ELSE
        LET file_list == FilterNewFiles(w.ws, Paths, {}, FALSE)
            r == Commit(w, "snap", byUser, file_list, out)
        IN IF r.hash = NoCommit THEN Ret(r.w, "success", NoCommit)
           ELSE Ret(AddToPendingWrites(r.w, "snap", r.hash, byUser, tracked),
                    "success", r.hash)

\* A snapshot whose partial form takes every specified path from the
\* workspace, tracked at HEAD or not.
Snapshot_UntrackedEnter(w, all, F, byUser, out) ==
    LET tracked == GetFilesByCommit(w.commits, w.head) IN
    IF tracked = {} THEN Ret(w, "success", NoCommit)
    ELSE IF ~all THEN
        CommitTree(w, SnapshotTree(w, tracked \cup {p \in F : w.ws[p] # Absent}, F),
                   "snap", byUser, F, out)
    ELSE
        LET r == Commit(w, "snap", byUser, tracked, out)
        IN IF r.hash = NoCommit THEN Ret(r.w, "success", NoCommit)
           ELSE Ret(AddToPendingWrites(r.w, "snap", r.hash, byUser, tracked),
                    "success", r.hash)

\* MemovManager.snapshot; all = TRUE is file_paths = None.
Snapshot(w, all, F, byUser, out) ==
    LET tracked == GetFilesByCommit(w.commits, w.head) IN
    IF tracked = {} THEN Ret(w, "success", NoCommit)
    ELSE IF ~all THEN
        LET tracked_specified == F \cap tracked IN
        IF tracked_specified = {} THEN Ret(w, "success", NoCommit)
        ELSE CommitTree(w, SnapshotTree(w, tracked, tracked_specified), "snap",
                        byUser, tracked_specified, out)
    ELSE
        LET r == Commit(w, "snap", byUser, tracked, out)
        IN IF r.hash = NoCommit THEN Ret(r.w, "success", NoCommit)
           ELSE Ret(AddToPendingWrites(r.w, "snap", r.hash, byUser, tracked),
                    "success", r.hash)

\* A rename that moves the file before it tests that old is tracked.
Rename_MoveFirst(w, old, new, byUser, out) ==
    LET tracked == GetFilesByCommit(w.commits, w.head)
        oldExisted == w.ws[old] # Absent
        newExisted == w.ws[new] # Absent
        ws1 == IF oldExisted
               THEN [w.ws EXCEPT ![new] = w.ws[old], ![old] = Absent]
               ELSE w.ws
        w1 == [w EXCEPT !.ws = ws1]
    IN IF oldExisted = newExisted THEN Ret(w, "none", NoCommit)
       ELSE IF old \notin tracked THEN Ret(w1, "none", NoCommit)
       ELSE
           LET file_list == FilterNewFiles(ws1, Paths, {}, FALSE)
               r == Commit(w1, "rename", byUser, file_list, out)
           IN IF r.hash = NoCommit THEN Ret(r.w, "none", NoCommit)
              ELSE Ret(AddToPendingWrites(r.w, "rename", r.hash, byUser, {old, new}),
                       "none", r.hash)

\* MemovManager.rename
Rename(w, old, new, byUser, out) ==
    LET tracked == GetFilesByCommit(w.commits, w.head)
        oldExisted == w.ws[old] # Absent
        newExisted == w.ws[new] # Absent
    IN IF oldExisted = newExisted THEN Ret(w, "none", NoCommit)
       ELSE IF old \notin tracked THEN Ret(w, "none", NoCommit)
       ELSE
           LET ws1 == IF oldExisted
                      THEN [w.ws EXCEPT ![new] = w.ws[old], ![old] = Absent]
                      ELSE w.ws
               w1 == [w EXCEPT !.ws = ws1]
               file_list == FilterNewFiles(ws1, Paths, {}, FALSE)
               r == Commit(w1, "rename", byUser, file_list, out)
           IN IF r.hash = NoCommit THEN Ret(r.w, "none", NoCommit)
              ELSE Ret(AddToPendingWrites(r.w, "rename", r.hash, byUser, {old, new}),
                       "none", r.hash)

\* MemovManager.remove; confirm is the answer to the y/N question.
Remove(w, target, confirm, byUser, out) ==
    LET tracked == GetFilesByCommit(w.commits, w.head) IN
    IF target \notin tracked THEN Ret(w, "none", NoCommit)
    ELSE IF w.ws[target] # Absent /\ ~confirm THEN Ret(w, "none", NoCommit)
    ELSE
        LET w1 == [w EXCEPT !.ws[target] = Absent]
            file_list == {p \in tracked : p # target /\ w1.ws[p] # Absent}
            r == Commit(w1, "remove", byUser, file_list, out)
        IN IF r.hash = NoCommit THEN Ret(r.w, "none", NoCommit)
           ELSE Ret(AddToPendingWrites(r.w, "remove", r.hash, byUser, {target}),
                    "none", r.hash)

\* The files tracked by any commit in the history of any branch tip.
AllTrackedFiles(w) ==
    UNION {GetFilesByCommit(w.commits, c) :
             c \in UNION {GetCommitHistory(w.commits, t) : t \in Tips(w.cat)}}

\* A jump that only extracts the archive of the target and removes nothing.
Jump_ExtractOnly(w, c) ==
    IF ~w.cat.exists THEN Ret(w, "none", NoCommit)
    ELSE
        LET tree == w.commits[c].tree
            ws1 == [p \in Paths |->
                      IF p \in DOMAIN tree THEN BlobContent(tree[p]) ELSE w.ws[p]]
            u == UpdateBranch(w.commits, w.cat, w.head, c, TRUE)
        IN Ret([w EXCEPT !.ws = ws1, !.cat = u.cat, !.head = u.head], "none", c)

\* MemovManager.jump to an existing commit c. The removal loop compares
\* absolute paths with the relative paths of the target, so it removes every
\* file ever tracked; the archive of the target is extracted afterwards.
Jump(w, c) ==
    IF ~w.cat.exists THEN Ret(w, "none", NoCommit)
    ELSE
        LET ever == AllTrackedFiles(w)
            tree == w.commits[c].tree
            ws1 == [p \in Paths |->
                      IF p \in DOMAIN tree THEN BlobContent(tree[p])
                      ELSE IF p \in ever THEN Absent ELSE w.ws[p]]
            u == UpdateBranch(w.commits, w.cat, w.head, c, TRUE)
        IN Ret([w EXCEPT !.ws = ws1, !.cat = u.cat, !.head = u.head], "none", c)

\* MemovManager.init
InitRepo(w, out) ==
    LET w1 == [w EXCEPT !.repo = TRUE] IN
    IF w.ws[MemIgnore] # Absent THEN Ret(w1, "success", NoCommit)
    ELSE
        LET w2 == [w1 EXCEPT !.ws[MemIgnore] = DefaultIgnore]
            r == Track(w2, {MemIgnore}, FALSE, out)
        IN Ret(r.w, "success", r.hash)

\* MemovManager.status: the three lists it returns.
Status(w) ==
    LET tracked == GetFilesAndBlobsByCommit(w.commits, w.head)
        workspace_files == FilterNewFiles(w.ws, Paths, {}, FALSE)
    IN [untracked |-> workspace_files \ DOMAIN tracked,
        deleted   |-> DOMAIN tracked \ workspace_files,
        modified  |-> {p \in workspace_files \cap DOMAIN tracked :
                          tracked[p] # HashObject(w.ws[p])}]

\* ------------------------------------------------------------ history view
\* The commit walk used by history(): the ancestors of c and c itself, oldest
\* first; an id that names no commit has no history.
RECURSIVE GetHistory(_, _)
GetHistory(cs, c) ==
    IF ~IsCommit(cs, c) THEN <<>>
    ELSE Append(GetHistory(cs, cs[c].parent), c)

\* The loops of MemovManager.history: the branches in catalog order, the
\* commits of each walk in the walk's order, a commit already in seen skipped.
\* rows is the sequence of the commit ids emitted so far.
RECURSIVE HistoryRows(_, _, _, _)
HistoryRows(cs, branches, i, rows) ==
    IF i > Len(branches) THEN rows
    ELSE LET walk == GetHistory(cs, branches[i].tip)
             seen == {rows[k] : k \in DOMAIN rows}
         IN HistoryRows(cs, branches, i + 1,
                        rows \o SelectSeq(walk, LAMBDA hash_id : hash_id \notin seen))

\* MemovManager.history: the commit ids of the rows it prints, in order.
History(w) ==
    IF ~w.cat.exists THEN <<>>
    ELSE HistoryRows(w.commits, w.cat.branches, 1, <<>>)

\* ------------------------------------------------------ the vector store
\* The call self.vectordb.insert_splitted(...) of sync_to_vectordb. VectorDB
\* (vectordb.py 17-388) defines insert, search, get_by_commit,
\* delete_by_commit, update_metadata, get_all, find_similar_prompts,
\* find_commits_by_files, get_collection_info and reset, and no
\* insert_splitted: the call raises AttributeError and stores nothing.
InsertSplitted(v, entry) == [raised |-> TRUE, vdb |-> v]

\* The loop of sync_to_vectordb over the entries q; calls lists the commits
\* of the entries in the order the loop handles them.
RECURSIVE SyncLoop(_, _)
SyncLoop(acc, q) ==
    IF q = <<>> THEN acc
    ELSE SyncLoop(The({ [vdb |-> i.vdb,
                         successful |-> acc.successful + (IF i.raised THEN 0 ELSE 1),
                         failed |-> acc.failed + (IF i.raised THEN 1 ELSE 0),
                         calls |-> Append(acc.calls, Head(q).commit)]
                        : i \in {InsertSplitted(acc.vdb, Head(q))} }),
                  Tail(q))

\* sync_to_vectordb that gives up at the first entry that fails and keeps
\* the entries it did not store.
Sync_StopAtFailure(w) ==
    IF w.pending = <<>>
    THEN [w |-> w, successful |-> 0, failed |-> 0, calls |-> <<>>]
    ELSE The({ IF i.raised
               THEN [w |-> w, successful |-> 0, failed |-> 1,
                     calls |-> <<Head(w.pending).commit>>]
               ELSE [w |-> [w EXCEPT !.vdb = i.vdb, !.pending = Tail(@)],
                     successful |-> 1, failed |-> 0,
                     calls |-> <<Head(w.pending).commit>>]
               : i \in {InsertSplitted(w.vdb, Head(w.pending))} })

\* sync_to_vectordb that handles the newest entry first.
Sync_NewestFirst(w) ==
    IF w.pending = <<>>
    THEN [w |-> w, successful |-> 0, failed |-> 0, calls |-> <<>>]
    ELSE The({ [w |-> [w EXCEPT !.vdb = a.vdb, !.pending = <<>>],
                successful |-> a.successful, failed |-> a.failed, calls |-> a.calls]
               : a \in {SyncLoop([vdb |-> w.vdb, successful |-> 0, failed |-> 0,
                                  calls |-> <<>>],
                                 [k \in 1..Len(w.pending) |->
                                     w.pending[Len(w.pending) + 1 - k]])} })

\* MemovManager.sync_to_vectordb: the result is (successful, failed).
Sync(w) ==
    IF w.pending = <<>>
    THEN [w |-> w, successful |-> 0, failed |-> 0, calls |-> <<>>]
    ELSE The({ [w |-> [w EXCEPT !.vdb = a.vdb, !.pending = <<>>],
                successful |-> a.successful, failed |-> a.failed, calls |-> a.calls]
               : a \in {SyncLoop([vdb |-> w.vdb, successful |-> 0, failed |-> 0,
                                  calls |-> <<>>], w.pending)} })

\* The mem_sync tool: it builds its own MemovManager, whose queue is empty.
MemSync(w0) ==
    LET w == [w0 EXCEPT !.pending = <<>>] IN
    IF ~w.repo THEN [w |-> w, found |-> 0, successful |-> 0, failed |-> 0]
    ELSE IF Len(w.pending) = 0
    THEN [w |-> w, found |-> 0, successful |-> 0, failed |-> 0]
    ELSE The({ [w |-> s.w, found |-> Len(w.pending),
                successful |-> s.successful, failed |-> s.failed]
               : s \in {Sync(w)} })

\* ----------------------------------------------------------- the recorder
\* The commits a turn made, in the order it made them.
Made(made, role, r) ==
    IF r.hash = NoCommit THEN made ELSE Append(made, [role |-> role, id |-> r.hash])

\* The recorder's AI steps with the snapshot of the tracked files taken
\* before the track of the new ones.
RecordAI_SnapBeforeTrack(w, made, AI, st, ot, os) ==
    IF st.untracked # {} /\ \E p \in AI : w.ws[p] = Absent
    THEN [w |-> w, made |-> made, status |-> "error"]
    ELSE
        LET files_to_track == AI \cap st.untracked
            files_to_snap == AI \ st.untracked
            rs == IF files_to_snap # {}
                  THEN Snapshot(w, FALSE, files_to_snap, FALSE, os)
                  ELSE Ret(w, "success", NoCommit)
            made1 == Made(made, "snap", rs)
        IN IF rs.status # "success"
           THEN [w |-> rs.w, made |-> made1, status |-> "error"]
           ELSE
               LET rt == IF files_to_track # {} THEN Track(rs.w, files_to_track, FALSE, ot)
                         ELSE Ret(rs.w, "success", NoCommit)
               IN [w |-> rt.w, made |-> Made(made1, "track", rt),
                   status |-> IF rt.status = "success" THEN "success" ELSE "error"]

\* The recorder's AI steps that go on to the snapshot after a failed track.
RecordAI_SnapAfterFailedTrack(w, made, AI, st, ot, os) ==
    IF st.untracked # {} /\ \E p \in AI : w.ws[p] = Absent
    THEN [w |-> w, made |-> made, status |-> "error"]
    ELSE
        LET files_to_track == AI \cap st.untracked
            files_to_snap == AI \ st.untracked
            rt == IF files_to_track # {} THEN Track(w, files_to_track, FALSE, ot)
                  ELSE Ret(w, "success", NoCommit)
            made1 == Made(made, "track", rt)
            rs == IF files_to_snap # {}
                  THEN Snapshot(rt.w, FALSE, files_to_snap, FALSE, os)
                  ELSE Ret(rt.w, "success", NoCommit)
        IN [w |-> rs.w, made |-> Made(made1, "snap", rs),
            status |-> IF rt.status = "success" /\ rs.status = "success"
                       THEN "success" ELSE "error"]

\* MemMCPTools.snap steps 2..: the AI-changed files are tracked or snapped
\* (mcp_server.py 280-332). Path.samefile raises on a claimed file that is
\* missing as soon as there is an untracked file to compare it with.
RecordAI(w, made, AI, st, ot, os) ==
    IF st.untracked # {} /\ \E p \in AI : w.ws[p] = Absent
    THEN [w |-> w, made |-> made, status |-> "error"]
    ELSE
        LET files_to_track == AI \cap st.untracked
            files_to_snap == AI \ st.untracked
            rt == IF files_to_track # {} THEN Track(w, files_to_track, FALSE, ot)
                  ELSE Ret(w, "success", NoCommit)
            made1 == Made(made, "track", rt)
        IN IF rt.status # "success"
           THEN [w |-> rt.w, made |-> made1, status |-> "error"]
           ELSE
               LET rs == IF files_to_snap # {}
                         THEN Snapshot(rt.w, FALSE, files_to_snap, FALSE, os)
                         ELSE Ret(rt.w, "success", NoCommit)
               IN [w |-> rs.w, made |-> Made(made1, "snap", rs),
                   status |-> IF rs.status = "success" THEN "success" ELSE "error"]

\* MemMCPTools.snap from the manual-edit snapshot on (mcp_server.py 250-332):
\* ri is the result of the bootstrap, st the status lists.
RecordManual(ri, st, AI, om, ot, os) ==
    LET manual_edit_files == st.modified \ AI
        made0 == Made(<<>>, "init", ri)
    IN The({ IF rm.status # "success"
             THEN [w |-> rm.w, made |-> Made(made0, "manual", rm), status |-> "error"]
             ELSE RecordAI(rm.w, Made(made0, "manual", rm), AI, st, ot, os)
             : rm \in {IF manual_edit_files # {}
                       THEN Snapshot(ri.w, FALSE, manual_edit_files, TRUE, om)
                       ELSE Ret(ri.w, "success", NoCommit)} })

\* MemMCPTools.snap on a fresh MemovManager (its queue starts empty). AI is
\* the set files_changed names; oi, om, ot, os are the outcomes of the commit
\* writes of init, the manual snapshot, track and the AI snapshot.
Record(w0, AI, oi, om, ot, os) ==
    The({ IF AI = {} THEN [w |-> ri.w, made |-> Made(<<>>, "init", ri), status |-> "success"]
          ELSE The({ RecordManual(ri, st, AI, om, ot, os) : st \in {Status(ri.w)} })
          : ri \in {IF w0.repo THEN Ret(w0, "success", NoCommit) ELSE InitRepo(w0, oi)} })

\* ------------------------------------------------- blob writes of a turn
\* files_changed as the list of paths it names, duplicates kept.
MaxFiles == 3
FileLists == UNION {[1..n -> Paths] : n \in 1..MaxFiles}

\* The number of entries of the list l that are p.
Count(l, p) == Cardinality({i \in DOMAIN l : l[i] = p})

\* The write_blob calls of track(file_paths), per path. _filter_new_files
\* appends one entry per listed path that passes the filter (manager.py
\* 903-942). On an existing HEAD track writes one blob per entry (205-210);
\* for the first commit the entries go through the dict all_files (241-245).
TrackBlobWrites(w, file_paths) ==
    LET tracked == GetFilesByCommit(w.commits, w.head)
        new_files == SelectSeq(file_paths, LAMBDA p :
                        w.ws[p] # Absent /\ ~FilterOut(w.ws, tracked, TRUE, p))
    IN [p \in Paths |->
          IF w.head # NoCommit THEN Count(new_files, p)
          ELSE IF Count(new_files, p) > 0 THEN 1 ELSE 0]

\* The write_blob calls of snapshot(file_paths), per path: the specified
\* paths are collected in a set (manager.py 317-335) and one blob is written
\* per tracked specified path that exists (362-368).
SnapshotBlobWrites(w, file_paths) ==
    LET tracked == GetFilesByCommit(w.commits, w.head)
        specified_rel_paths == {file_paths[i] : i \in DOMAIN file_paths}
    IN [p \in Paths |->
          IF p \in specified_rel_paths \cap tracked /\ w.ws[p] # Absent
          THEN 1 ELSE 0]

\* The write_blob calls of the track commit and of the AI snapshot commit of
\* one turn of the recorder with a working store. The recorder splits the
\* list files_changed into two lists (mcp_server.py 280-300).
RecordBlobWrites(w0, files_changed) ==
    LET AI == {files_changed[i] : i \in DOMAIN files_changed} IN
    The({ The({ The({
        LET files_to_track == SelectSeq(files_changed, LAMBDA p : p \in st.untracked)
            files_to_snap == SelectSeq(files_changed, LAMBDA p : p \notin st.untracked)
        IN The({ [track |-> TrackBlobWrites(rm.w, files_to_track),
                  snap |-> SnapshotBlobWrites(rt.w, files_to_snap)]
                 : rt \in {Track(rm.w, AI \cap st.untracked, FALSE, "ok")} })
        : rm \in {Snapshot(ri.w, FALSE, st.modified \ AI, TRUE, "ok")} })
        : st \in {Status(ri.w)} })
        : ri \in {IF w0.repo THEN Ret(w0, "success", NoCommit) ELSE InitRepo(w0, "ok")} })

\* --------------------------------------------------------------- behaviour
World == [ws |-> ws, repo |-> repo, commits |-> commits, head |-> head,
          cat |-> cat, vdb |-> vdb, pending |-> <<>>]

Last(op, files, made, status) == [op |-> op, files |-> files, made |-> made]

OneMade(role, r) == Made(<<>>, role, r)

\* The files an operation committed, as its pending write records them.
Queued(r) ==
    IF r.w.pending = <<>> THEN {} ELSE r.w.pending[Len(r.w.pending)].files

\* The operation left world w and its engine instance is dropped. last
\* describes the latest operation that changed the world: an invocation that
\* changes nothing is a stuttering step.
Becomes(w, l) ==
    /\ Len(w.commits) <= MaxCommits
    /\ ws' = w.ws
    /\ repo' = w.repo
    /\ commits' = w.commits
    /\ head' = w.head
    /\ cat' = w.cat
    /\ vdb' = w.vdb
    /\ edits' = edits
    /\ ck' = ck
    /\ procs' = procs
    /\ last' = IF [w EXCEPT !.pending = <<>>] = World THEN last ELSE l

\* A project with the files a and b, no .memignore and no .mem directory.
Init ==
    /\ ws = [p \in Paths |-> IF p = MemIgnore THEN Absent ELSE DefaultIgnore]
    /\ repo = FALSE
    /\ commits = <<>>
    /\ head = NoCommit
    /\ cat = NoCatalog
    /\ vdb = {}
    /\ edits = 0
    /\ ck = NoCall
    /\ procs = Idle
    /\ last = Last("start", {}, <<>>, "none")

\* The user (or the agent) writes or deletes a workspace file.
Edit ==
    /\ edits < MaxEdits
    /\ \E p \in Paths, v \in {Absent} \cup Contents :
        /\ v # ws[p]
        /\ ws' = [ws EXCEPT ![p] = v]
        /\ edits' = edits + 1
        /\ UNCHANGED <<repo, commits, head, cat, vdb, last, ck, procs>>

\* The outcomes to consider for an operation whose result with a working
\* store is r: the store can only fail where a commit write is attempted.
OutcomesFor(r) == IF r.hash = NoCommit THEN {"ok"} ELSE Outcomes

DoInit ==
    \E out \in OutcomesFor(InitRepo(World, "ok")) :
        \E r \in {InitRepo(World, out)} :
        Becomes(r.w, Last("init", {}, OneMade("init", r), r.status))

DoTrack ==
    /\ repo
    /\ \E F \in SUBSET Paths : \E out \in OutcomesFor(Track(World, F, FALSE, "ok")) :
        \E r \in {Track(World, F, FALSE, out)} :
        Becomes(r.w, Last("track", Queued(r), OneMade("track", r), r.status))

DoSnapshot ==
    /\ repo
    /\ \E F \in (SUBSET Paths) \ {{}} :
       \E out \in OutcomesFor(Snapshot(World, FALSE, F, FALSE, "ok")) :
        \E r \in {Snapshot(World, FALSE, F, FALSE, out)} :
        Becomes(r.w, Last("snapshot", Queued(r), OneMade("snap", r), r.status))

DoSnapshotAll ==
    /\ repo
    /\ \E out \in OutcomesFor(Snapshot(World, TRUE, {}, FALSE, "ok")) :
        \E r \in {Snapshot(World, TRUE, {}, FALSE, out)} :
        Becomes(r.w, Last("snapshot_all", {}, OneMade("snap", r), r.status))

DoRename ==
    /\ repo
    /\ \E old \in Paths, new \in Paths :
       \E out \in OutcomesFor(Rename(World, old, new, FALSE, "ok")) :
        \E r \in {Rename(World, old, new, FALSE, out)} :
        Becomes(r.w, Last("rename", {}, OneMade("rename", r), r.status))

DoRemove ==
    /\ repo
    /\ \E p \in Paths, confirm \in BOOLEAN :
       \E out \in OutcomesFor(Remove(World, p, confirm, FALSE, "ok")) :
        \E r \in {Remove(World, p, confirm, FALSE, out)} :
        Becomes(r.w, Last("remove", {}, OneMade("remove", r), r.status))

\* The mem_sync tool.
DoSync ==
    \E r \in {MemSync(World)} :
        Becomes(r.w, Last("sync", {}, <<>>, "none"))

\* The history command: it prints and changes nothing.
DoHistory ==
    /\ repo
    /\ \E h \in {History(World)} :
        Becomes(World, Last("history", {}, <<>>, "none"))

\* A track or an all-files snapshot whose process is interrupted during the
\* commit; what it had written stays.
DoInterrupted ==
    /\ repo
    /\ \E cut \in Cuts :
        \/ \E F \in SUBSET Paths : \E r \in {Track(World, F, FALSE, cut)} :
              Becomes(r.w, Last("interrupted", {}, <<>>, r.status))
        \/ \E r \in {Snapshot(World, TRUE, {}, FALSE, cut)} :
              Becomes(r.w, Last("interrupted", {}, <<>>, r.status))

\* The status command: it reports and changes nothing.
DoStatus ==
    /\ repo
    /\ \E st \in {Status(World)} :
        Becomes(World, Last("status", {}, <<>>, "success"))

DoJump ==
    /\ repo
    /\ \E c \in 1..Len(commits) :
        \E r \in {Jump(World, c)} :
        Becomes(r.w, Last("jump", {}, OneMade("jump", r), r.status))

\* The outcomes of the commit writes of one turn. The recorder stops at the
\* first failed step, so the outcomes after a failure are never consumed.
TurnOutcomes ==
    {<<"ok", "ok", "ok">>, <<"empty", "ok", "ok">>, <<"raise", "ok", "ok">>,
     <<"ok", "empty", "ok">>, <<"ok", "raise", "ok">>,
     <<"ok", "ok", "empty">>, <<"ok", "ok", "raise">>}

InitOutcomes == IF repo THEN {"ok"} ELSE Outcomes

TurnOutcomesFor(r) == IF r.made = <<>> THEN {<<"ok", "ok", "ok">>} ELSE TurnOutcomes

\* One turn of the recorder.
DoRecord ==
    \E AI \in SUBSET Paths, oi \in InitOutcomes :
    \E o \in TurnOutcomesFor(Record(World, AI, oi, "ok", "ok", "ok")) :
        \E r \in {Record(World, AI, oi, o[1], o[2], o[3])} :
        Becomes(r.w, Last("record", {}, r.made, r.status))

Next ==
    \/ Edit
    \/ DoInit
    \/ DoTrack
    \/ DoSnapshot
    \/ DoSnapshotAll
    \/ DoRename
    \/ DoRemove
    \/ DoJump
    \/ DoRecord
    \/ DoSync
    \/ DoHistory
    \/ DoInterrupted
    \/ DoStatus

Spec == Init /\ [][Next]_vars

\* The snapshot engine alone: edits, init, track and the two snapshot forms.
NextSnap == Edit \/ DoInit \/ DoTrack \/ DoSnapshot \/ DoSnapshotAll \/ DoStatus
SpecSnap == Init /\ [][NextSnap]_vars

\* The recorder: the user edits and tracks, the agent's turns are recorded.
NextTurn == Edit \/ DoTrack \/ DoRecord \/ DoSync
SpecTurn == Init /\ [][NextTurn]_vars

\* The ref catalog: every operation that moves refs, on a workspace that
\* only the engine changes.
NextRefs ==
    \/ DoInit \/ DoTrack \/ DoSnapshot \/ DoSnapshotAll \/ DoRename \/ DoJump
    \/ DoRecord \/ DoHistory
SpecRefs == Init /\ [][NextRefs]_vars

\* Commits and their interruptions.
NextCrash == DoInit \/ DoTrack \/ DoSnapshotAll \/ DoInterrupted

SpecCrash == Init /\ [][NextCrash]_vars

\* ------------------------------------------------- the filter on its own
\* The texts a .memignore can hold in the runs of the filter.
IgnoreTexts == {DefaultIgnore, "a", MemIgnore, "*", "!.mem/", TwoLines}

\* A project with any of the files a, b, .mem/x and .git/x and any
\* .memignore.
InitFilter ==
    /\ ws \in {w \in [ScanPaths -> {Absent, "a"} \cup IgnoreTexts] :
                 \A p \in ScanPaths \ {MemIgnore} : w[p] \in {Absent, "a"}}
    /\ repo = TRUE
    /\ commits = <<>>
    /\ head = NoCommit
    /\ cat = NoCatalog
    /\ vdb = {}
    /\ edits = 0
    /\ ck = NoCall
    /\ procs = Idle
    /\ last = [op |-> "start", files |-> {}, made |-> <<>>]

\* _filter_new_files over named files, as track calls it.
DoFilterNamed ==
    /\ \E F \in SUBSET ScanPaths, tracked \in SUBSET {"a", "b"} :
          last' = [op |-> "filter", made |-> <<>>,
                   files |-> FilterNewFiles(ws, F, tracked, TRUE)]
    /\ UNCHANGED <<ws, repo, commits, head, cat, vdb, edits, ck, procs>>

\* _filter_new_files over the project directory, as the workspace scan of
\* status, rename and the all-files snapshot calls it.
DoFilterScan ==
    /\ last' = [op |-> "scan", made |-> <<>>,
                files |-> FilterNewFiles(ws, ScanPaths, {}, FALSE)]
    /\ UNCHANGED <<ws, repo, commits, head, cat, vdb, edits, ck, procs>>

NextFilter == DoFilterNamed \/ DoFilterScan

SpecFilter == InitFilter /\ [][NextFilter]_vars

\* ------------------------------------------------------------- the chunker
\* Texts are sequences over a blank and a letter, at most MaxText long;
\* chunks are texts. Positions are Python's: the character at position i of
\* text is text[i + 1].
MaxText == 4
MaxChunkSize == 3
Chars == {" ", "x"}
Texts == UNION {[1..n -> Chars] : n \in 0..MaxText}

\* A slice bound as Python reads it: a negative bound counts from the end
\* of the text, and bounds are clamped to 0..len.
Bound(i, n) ==
    IF i < 0 THEN (IF i + n < 0 THEN 0 ELSE i + n)
    ELSE IF i > n THEN n ELSE i

\* text[start:end]
Slice(text, start, end) ==
    SubSeq(text, Bound(start, Len(text)) + 1, Bound(end, Len(text)))

\* text.rfind(" ", start, end): the last position of a blank in
\* text[start:end], -1 when there is none.
RFindSpace(text, start, end) ==
    LET at == {i \in Bound(start, Len(text))..(Bound(end, Len(text)) - 1) :
                 text[i + 1] = " "}
    IN IF at = {} THEN -1 ELSE CHOOSE i \in at : \A j \in at : j <= i

\* str.strip()
Strip(t) ==
    LET solid == {i \in DOMAIN t : t[i] # " "}
    IN IF solid = {} THEN <<>>
       ELSE SubSeq(t, CHOOSE i \in solid : \A j \in solid : i <= j,
                      CHOOSE i \in solid : \A j \in solid : j <= i)

\* One pass of the while loop of chunk_text (lines 40-61). The guard of line
\* 60 is the conditional expression (start <= chunks[-1]) if chunks else 0:
\* with a chunk in the list it compares an int with a str, which raises
\* TypeError; with none it is 0 and start is left as computed.
ChunkPass(c) ==
    IF ~(c.start < Len(c.text)) THEN [c EXCEPT !.pc = "returned"]
    ELSE
        LET end0 == c.start + c.chunk_size
            last_space == RFindSpace(c.text, c.start, end0)
            end == IF end0 < Len(c.text) /\ last_space > c.start
                   THEN last_space ELSE end0
            chunk == Strip(Slice(c.text, c.start, end))
            chunks == IF chunk # <<>> THEN Append(c.chunks, chunk) ELSE c.chunks
            start == IF end < Len(c.text) THEN end - c.overlap ELSE end
        IN IF chunks # <<>>
           THEN [c EXCEPT !.chunks = chunks, !.start = start, !.pc = "raised"]
           ELSE [c EXCEPT !.chunks = chunks, !.start = start]

\* TextChunker.chunk_text up to the loop (lines 30-38).
ChunkEnter(c) ==
    IF c.text = <<>> THEN [c EXCEPT !.pc = "returned"]
    ELSE IF Len(c.text) <= c.chunk_size
    THEN [c EXCEPT !.pc = "returned", !.chunks = <<c.text>>]
    ELSE [c EXCEPT !.pc = "loop"]

\* A call chunk_text(text) on a TextChunker(chunk_size, overlap).
InitChunk ==
    /\ \E text \in Texts, chunk_size \in 1..MaxChunkSize :
         \E overlap \in 0..(chunk_size - 1) :
            ck = [pc |-> "call", text |-> text, chunk_size |-> chunk_size,
                  overlap |-> overlap, start |-> 0, chunks |-> <<>>]
    /\ ws = [p \in Paths |-> Absent]
    /\ repo = FALSE
    /\ commits = <<>>
    /\ head = NoCommit
    /\ cat = NoCatalog
    /\ vdb = {}
    /\ edits = 0
    /\ procs = Idle
    /\ last = [op |-> "start", files |-> {}, made |-> <<>>]

DoChunkEnter ==
    /\ ck.pc = "call"
    /\ ck' = ChunkEnter(ck)
    /\ UNCHANGED <<ws, repo, commits, head, cat, vdb, edits, last, procs>>

DoChunkPass ==
    /\ ck.pc = "loop"
    /\ ck' = ChunkPass(ck)
    /\ UNCHANGED <<ws, repo, commits, head, cat, vdb, edits, last, procs>>

NextChunk == DoChunkEnter \/ DoChunkPass

\* The interpreter keeps running the call.
SpecChunk == InitChunk /\ [][NextChunk]_vars /\ WF_vars(NextChunk)

\* ------------------------------------------------ two concurrent commits
\* Two processes run a commit-advancing operation on the same project. The
\* code takes no lock: each process writes its commit object, then runs
\* _update_branch, whose accesses to the shared files are separate steps that
\* interleave with the other process: _load_branches (1016), the read of
\* refs/memov/HEAD (1036), _save_branches (1071) and update_ref (1072).
StartProc ==
    [pc |-> "start", new |-> NoCommit, branches |-> NoCatalog, head_commit |-> NoCommit]

\* The project before init.
InitWorld ==
    [ws |-> [p \in Paths |-> IF p = MemIgnore THEN Absent ELSE DefaultIgnore],
     repo |-> FALSE, commits |-> <<>>, head |-> NoCommit, cat |-> NoCatalog,
     vdb |-> {}, pending |-> <<>>]

\* The states the two processes start from: a repository without a commit
\* (init found a .memignore), after init, after init and track, and detached
\* by a jump.
RaceStarts ==
    LET w0 == InitRepo([InitWorld EXCEPT !.ws[MemIgnore] = DefaultIgnore], "ok").w
        w1 == InitRepo(InitWorld, "ok").w
        w2 == Track(w1, {"a"}, FALSE, "ok").w
        w3 == Jump(w2, 1).w
    IN {w0, w1, w2, w3}

InitRace ==
    /\ \E w \in RaceStarts :
        /\ ws = w.ws
        /\ repo = w.repo
        /\ commits = w.commits
        /\ head = w.head
        /\ cat = w.cat
        /\ vdb = w.vdb
    /\ edits = 0
    /\ ck = NoCall
    /\ procs = [p \in Procs |-> StartProc]
    /\ last = Last("start", {}, <<>>, "none")

\* The process writes its commit object on top of the HEAD it finds: track
\* of some files or an all-files snapshot, up to the point where the commit
\* is in the store and no ref has been touched.
RaceWrite ==
    \E p \in Procs :
        /\ procs[p].pc = "start"
        /\ \E r \in {Track(World, F, FALSE, "cut_store") : F \in SUBSET Paths}
                       \cup {Snapshot(World, TRUE, {}, FALSE, "cut_store")} :
            /\ Len(r.w.commits) = Len(commits) + 1
            /\ commits' = r.w.commits
            /\ procs' = [procs EXCEPT ![p].pc = "written", ![p].new = Len(r.w.commits)]
        /\ UNCHANGED <<ws, repo, head, cat, vdb, edits, last, ck>>

\* _update_branch: branches = self._load_branches()
RaceLoadBranches ==
    \E p \in Procs :
        /\ procs[p].pc = "written"
        /\ procs' = [procs EXCEPT ![p].pc = "loaded", ![p].branches = cat]
        /\ UNCHANGED <<ws, repo, commits, head, cat, vdb, edits, last, ck>>

\* _update_branch: head_commit = GitManager.get_commit_id_by_ref(...), which
\* runs when a catalog was loaded.
RaceReadHead ==
    \E p \in Procs :
        /\ procs[p].pc = "loaded"
        /\ procs[p].branches.exists
        /\ procs' = [procs EXCEPT ![p].pc = "read", ![p].head_commit = head]
        /\ UNCHANGED <<ws, repo, commits, head, cat, vdb, edits, last, ck>>

\* _update_branch: self._save_branches(branches), the catalog computed from
\* what the process loaded.
RaceSaveBranches ==
    \E p \in Procs :
        /\ \/ procs[p].pc = "read"
           \/ procs[p].pc = "loaded" /\ ~procs[p].branches.exists
        /\ cat' = UpdateBranch(commits, procs[p].branches, procs[p].head_commit,
                               procs[p].new, FALSE).cat
        /\ procs' = [procs EXCEPT ![p].pc = "saved"]
        /\ UNCHANGED <<ws, repo, commits, head, vdb, edits, last, ck>>

\* _update_branch: GitManager.update_ref(..., "refs/memov/HEAD", new_commit)
RaceUpdateRef ==
    \E p \in Procs :
        /\ procs[p].pc = "saved"
        /\ head' = UpdateRef(commits, head, procs[p].new)
        /\ procs' = [procs EXCEPT ![p].pc = "done"]
        /\ last' = Last("commit", {}, Append(last.made, [role |-> "commit", id |-> procs[p].new]),
                        "success")
        /\ UNCHANGED <<ws, repo, commits, cat, vdb, edits, ck>>

NextRace ==
    RaceWrite \/ RaceLoadBranches \/ RaceReadHead \/ RaceSaveBranches \/ RaceUpdateRef

SpecRace == InitRace /\ [][NextRace]_vars

\* ------------------------------------------------------------ properties
\* A tracked file whose workspace content is not what commit c stores.
Stale(c, p) ==
    /\ p \in GetFilesByCommit(commits, c)
    /\ commits[c].tree[p] # HashObject(ws[p])

\* C1: a partial snapshot over the files F that creates a commit on HEAD H
\* gives every path tracked at H and not in F exactly the blob it has at H,
\* whatever the workspace holds for that path.
C1_PartialSnapshotKeepsOthers ==
    \A F \in (SUBSET Paths) \ {{}}, byUser \in BOOLEAN, out \in Outcomes :
        LET r == Snapshot(World, FALSE, F, byUser, out) IN
        r.hash # NoCommit =>
            /\ r.w.commits[r.hash].parent = head
            /\ \A p \in GetFilesByCommit(commits, head) \ F :
                /\ p \in GetFilesByCommit(r.w.commits, r.hash)
                /\ r.w.commits[r.hash].tree[p] = commits[head].tree[p]

\* A partial snapshot has just committed, and a tracked file outside its
\* file set differs in the workspace from the blob the new commit keeps.
C1_Witness ==
    /\ last.op = "snapshot"
    /\ last.made # <<>>
    /\ head = last.made[1].id
    /\ \E p \in GetFilesByCommit(commits, commits[head].parent) \ last.files :
        /\ Stale(head, p)
        /\ commits[head].tree[p] = commits[commits[head].parent].tree[p]

\* C2: a track on an existing HEAD H that creates a commit keeps, for every
\* path tracked at H, the blob of H; only the newly tracked paths get blobs
\* made from the workspace.
C2_TrackKeepsHeadBlobs ==
    \A F \in SUBSET Paths, byUser \in BOOLEAN, out \in Outcomes :
        LET r == Track(World, F, byUser, out) IN
        (r.hash # NoCommit /\ head # NoCommit) =>
            LET T == r.w.commits[r.hash].tree
                H == commits[head].tree
            IN /\ \A p \in DOMAIN H : p \in DOMAIN T /\ T[p] = H[p]
               /\ \A p \in DOMAIN T \ DOMAIN H : p \in F /\ T[p] = HashObject(ws[p])

\* A track has just committed on an existing HEAD while a file tracked there
\* had other content in the workspace.
C2_Witness ==
    /\ last.op = "track"
    /\ last.made # <<>>
    /\ head = last.made[1].id
    /\ commits[head].parent # NoCommit
    /\ \E p \in GetFilesByCommit(commits, commits[head].parent) :
        /\ Stale(head, p)
        /\ ws[p] # Absent
        /\ commits[head].tree[p] = commits[commits[head].parent].tree[p]

\* The kind of a commit, in the order the recorder is to create them: the
\* manual-edit snapshot, the track commit, the AI snapshot.
Rank(cs, c) ==
    IF cs[c].op = "snap" /\ cs[c].by_user THEN 1
    ELSE IF cs[c].op = "track" THEN 2
    ELSE IF cs[c].op = "snap" THEN 3
    ELSE 0

\* C3: the commits of one record turn are created in the order manual-edit
\* snapshot, track commit, AI snapshot (each at most once, any may be
\* missing), the first on the HEAD the turn found (after the bootstrap of a
\* new repository) and each next one on the previous commit of the turn.
C3_TurnCommitOrder ==
    \A AI \in SUBSET Paths, oi \in Outcomes, o \in TurnOutcomes :
        LET r == Record(World, AI, oi, o[1], o[2], o[3])
            boot == r.made # <<>> /\ r.made[1].role = "init"
            steps == IF boot THEN Tail(r.made) ELSE r.made
            base == IF boot THEN r.made[1].id ELSE head
            cs == r.w.commits
        IN /\ boot => cs[r.made[1].id].parent = head
           /\ \A i \in DOMAIN steps :
               /\ Rank(cs, steps[i].id) \in 1..3
               /\ cs[steps[i].id].parent = IF i = 1 THEN base ELSE steps[i - 1].id
               /\ \A j \in 1..(i - 1) : Rank(cs, steps[j].id) < Rank(cs, steps[i].id)

\* A turn has just made a track commit and then an AI snapshot on top of it.
C3_Witness ==
    /\ last.op = "record"
    /\ Len(last.made) = 2
    /\ last.made[1].role = "track"
    /\ last.made[2].role = "snap"
    /\ commits[last.made[2].id].parent = last.made[1].id
    /\ head = last.made[2].id

\* Present in the workspace with content other than the blob HEAD tracks.
ModifiedAtHead(p) ==
    /\ p \in GetFilesByCommit(commits, head)
    /\ ws[p] # Absent
    /\ commits[head].tree[p] # HashObject(ws[p])

\* Present in the workspace, not ignored and not tracked at HEAD.
UntrackedAtHead(p) ==
    /\ p \notin GetFilesByCommit(commits, head)
    /\ ws[p] # Absent
    /\ p = MemIgnore \/ ~MatchFile(ws, p)

\* C4: with the tracked files a and b both modified (and no other tracked
\* file modified) and a working store, the turn record(files_changed = {b})
\* creates exactly two commits: H1 by the user on the old HEAD, differing
\* from it only at a, then H2 by the AI on H1, differing from H1 only at b;
\* HEAD ends at H2.
C4_ScenarioS1 ==
    \A a \in Paths, b \in Paths :
        ( /\ repo
          /\ a # b
          /\ ModifiedAtHead(a)
          /\ ModifiedAtHead(b)
          /\ \A p \in Paths \ {a, b} : ~ModifiedAtHead(p) )
        => LET r == Record(World, {b}, "ok", "ok", "ok", "ok")
               cs == r.w.commits
           IN /\ Len(r.made) = 2
              /\ LET H1 == r.made[1].id
                     H2 == r.made[2].id
                 IN /\ cs[H1].parent = head
                    /\ cs[H1].by_user
                    /\ cs[H1].tree = [commits[head].tree EXCEPT ![a] = HashObject(ws[a])]
                    /\ cs[H2].parent = H1
                    /\ ~cs[H2].by_user
                    /\ cs[H2].tree = [cs[H1].tree EXCEPT ![b] = HashObject(ws[b])]
                    /\ r.w.head = H2

\* A turn has just made a manual-edit snapshot and an AI snapshot on it.
C4_Witness ==
    /\ last.op = "record"
    /\ Len(last.made) = 2
    /\ last.made[1].role = "manual"
    /\ last.made[2].role = "snap"
    /\ commits[last.made[1].id].by_user
    /\ ~commits[last.made[2].id].by_user
    /\ head = last.made[2].id

\* C5: with the tracked file L modified and not claimed and a working
\* store, the turn record(files_changed = {N}) for a new untracked file N
\* first makes a manual snapshot that holds L's post-edit blob and then a
\* track commit for N whose blob for L is the post-edit blob too.
C5_ScenarioS2 ==
    \A L \in Paths, N \in Paths :
        ( /\ repo
          /\ L # N
          /\ ModifiedAtHead(L)
          /\ UntrackedAtHead(N) )
        => LET r == Record(World, {N}, "ok", "ok", "ok", "ok")
               cs == r.w.commits
           IN \E i \in DOMAIN r.made, j \in DOMAIN r.made :
               /\ i < j
               /\ Rank(cs, r.made[i].id) = 1
               /\ cs[r.made[i].id].tree[L] = HashObject(ws[L])
               /\ Rank(cs, r.made[j].id) = 2
               /\ N \in DOMAIN cs[r.made[j].id].tree
               /\ cs[r.made[j].id].tree[L] = HashObject(ws[L])

\* A turn has just made a manual-edit snapshot and a track commit on it.
C5_Witness ==
    /\ last.op = "record"
    /\ Len(last.made) = 2
    /\ last.made[1].role = "manual"
    /\ last.made[2].role = "track"
    /\ commits[last.made[2].id].parent = last.made[1].id
    /\ head = last.made[2].id

\* The results of every commit-advancing operation on world w, over all its
\* inputs and all outcomes of its commit write.
CommitOps(w) ==
    {Track(w, F, bu, out) : F \in SUBSET Paths, bu \in BOOLEAN, out \in Outcomes}
    \cup {Snapshot(w, FALSE, F, bu, out) :
            F \in (SUBSET Paths) \ {{}}, bu \in BOOLEAN, out \in Outcomes}
    \cup {Snapshot(w, TRUE, {}, bu, out) : bu \in BOOLEAN, out \in Outcomes}
    \cup {Rename(w, old, new, FALSE, out) :
            old \in Paths, new \in Paths, out \in Outcomes}
    \cup {Remove(w, p, confirm, FALSE, out) :
            p \in Paths, confirm \in BOOLEAN, out \in Outcomes}

\* The worlds every public operation can leave from world w.
AfterAnyOp(w) ==
    {r.w : r \in CommitOps(w)}
    \cup {InitRepo(w, out).w : out \in Outcomes}
    \cup {Jump(w, c).w : c \in 1..Len(w.commits)}
    \cup {Record(w, AI, oi, o[1], o[2], o[3]).w :
            AI \in SUBSET Paths, oi \in Outcomes, o \in TurnOutcomes}

\* C6: after every commit-advancing operation that creates a commit C
\* (track, partial snapshot, all-files snapshot, rename, remove) the catalog
\* has a non-null current branch whose tip is C, and HEAD is C.
C6_CurrentTipAndHeadAtNewCommit ==
    \A r \in CommitOps(World) :
        r.hash # NoCommit =>
            /\ IsCommit(r.w.commits, r.hash)
            /\ r.w.cat.exists
            /\ r.w.cat.current # None
            /\ HasBranch(r.w.cat, r.w.cat.current)
            /\ TipCommit(r.w.cat, r.w.cat.current) = r.hash
            /\ r.w.head = r.hash

\* A commit-advancing operation has just committed on a detached HEAD: the
\* new develop branch is current, and its tip and HEAD are the new commit.
C6_Witness ==
    /\ last.op \in {"track", "snapshot", "snapshot_all", "rename"}
    /\ last.made # <<>>
    /\ cat.current = DevelopName(0)
    /\ TipCommit(cat, cat.current) = last.made[1].id
    /\ head = last.made[1].id

CurrentValid(c) == c.exists => (c.current = None \/ HasBranch(c, c.current))

\* C7: in every reachable state, and after every public operation from it,
\* the catalog's current is null or the name of a branch of the catalog.
C7_CurrentNullOrBranch ==
    /\ CurrentValid(cat)
    /\ \A w \in AfterAnyOp(World) : CurrentValid(w.cat)

\* A jump has detached HEAD in a catalog that holds a develop branch.
C7_Witness ==
    /\ last.op = "jump"
    /\ cat.current = None
    /\ Len(cat.branches) >= 2

TipsResolve(cs, c) ==
    \A i \in DOMAIN c.branches :
        c.branches[i].tip # NoCommit => IsCommit(cs, c.branches[i].tip)

\* C8: in every reachable state, and after every public operation from it
\* (failed commit writes included), every non-empty branch tip of the
\* catalog is the id of a commit of the object store.
C8_TipsAreCommits ==
    /\ TipsResolve(commits, cat)
    /\ \A w \in AfterAnyOp(World) : TipsResolve(w.commits, w.cat)

\* A commit write has failed: one branch has an empty tip while HEAD and
\* another branch still name commits.
C8_Witness ==
    /\ head # NoCommit
    /\ \E i \in DOMAIN cat.branches : cat.branches[i].tip = NoCommit
    /\ \E i \in DOMAIN cat.branches : cat.branches[i].tip # NoCommit

\* The name develop/N with the smallest N that names no branch of c.
SmallestUnusedDevelop(c, n) ==
    \E N \in 0..Len(c.branches) :
        /\ n = DevelopName(N)
        /\ ~HasBranch(c, n)
        /\ \A M \in 0..(N - 1) : HasBranch(c, DevelopName(M))

\* C9: after a jump to a commit c that is the tip of no branch, the next
\* operation that creates a commit appends the branch develop/N with the
\* smallest unused N, with the new commit as tip, makes it current and
\* leaves the tip of every branch that existed unchanged.
C9_DevelopBranchAfterJump ==
    \A c \in 1..Len(commits) :
        (cat.exists /\ c \notin Tips(cat)) =>
            LET j == Jump(World, c).w IN
            \A r \in CommitOps(j) :
                r.hash # NoCommit =>
                    LET n == r.w.cat.current IN
                    /\ SmallestUnusedDevelop(j.cat, n)
                    /\ r.w.cat.branches = Append(j.cat.branches, [name |-> n, tip |-> r.hash])

\* A commit has landed on a detached HEAD and made develop/0 while main
\* still has the tip it had.
C9_Witness ==
    /\ last.made # <<>>
    /\ last.op # "jump"
    /\ Len(cat.branches) = 2
    /\ cat.branches[2] = [name |-> DevelopName(0), tip |-> head]
    /\ cat.current = DevelopName(0)
    /\ commits[head].parent # cat.branches[1].tip
    /\ cat.branches[1].tip # NoCommit

\* C10: after a jump to a commit c, current is null, HEAD is c, the branch
\* names are those before the jump and every branch has the tip it had
\* before the jump.
C10_JumpKeepsBranches ==
    \A c \in 1..Len(commits) :
        cat.exists =>
            LET j == Jump(World, c).w IN
            /\ j.cat.current = None
            /\ j.head = c
            /\ j.cat.branches = cat.branches

\* A jump to a commit that is not HEAD has just detached HEAD.
C10_Witness ==
    /\ last.op = "jump"
    /\ cat.current = None
    /\ head = last.made[1].id
    /\ \E i \in DOMAIN cat.branches : cat.branches[i].tip # head

\* C11: a record turn with an empty files_changed never creates a commit:
\* HEAD, the catalog, the commits of the store and the length of the
\* pending-writes queue are what they were, whether or not the project was
\* initialized and whether or not the workspace holds manual edits.
C11_EmptyTurnChangesNothing ==
    \A oi \in Outcomes :
        \A r \in {Record(World, {}, oi, "ok", "ok", "ok")} :
            /\ r.made = <<>>
            /\ r.w.head = head
            /\ r.w.cat = cat
            /\ r.w.commits = commits
            /\ Len(r.w.pending) = 0

\* An initialized project with a manual edit of a tracked file, on which the
\* empty turn changes nothing.
C11_Witness ==
    /\ repo
    /\ \E p \in Paths : ModifiedAtHead(p)
    /\ Record(World, {}, "ok", "ok", "ok", "ok").w = World

\* C12: a track that creates a commit C on an empty store (no HEAD, no
\* catalog) makes C parentless, creates the catalog with the one branch main
\* at C and current = main, and sets HEAD to C.
C12_FirstTrackCreatesMain ==
    (head = NoCommit /\ ~cat.exists) =>
        \A F \in SUBSET Paths, byUser \in BOOLEAN, out \in Outcomes :
            \A r \in {Track(World, F, byUser, out)} :
                r.hash # NoCommit =>
                    /\ IsCommit(r.w.commits, r.hash)
                    /\ r.w.commits[r.hash].parent = NoCommit
                    /\ r.w.cat = [exists |-> TRUE, current |-> Main,
                                  branches |-> <<[name |-> Main, tip |-> r.hash]>>]
                    /\ r.w.head = r.hash

\* A track command has just made the first commit of the store.
C12_Witness ==
    /\ last.op = "track"
    /\ last.made = <<[role |-> "track", id |-> 1]>>
    /\ Len(commits) = 1
    /\ commits[1].parent = NoCommit
    /\ head = 1
    /\ cat.current = Main

\* The commits of the entries of a pending-writes queue, in queue order.
QueuedCommits(q) == [k \in 1..Len(q) |-> q[k].commit]

\* C13: track, snapshot, rename, remove, jump and record leave the records
\* of the vector store as they are, and each commit they create adds exactly
\* one entry, its own, to the pending-writes queue of the engine instance.
C13_CommitsQueueNotStore ==
    /\ \A r \in CommitOps(World) :
        /\ r.w.vdb = vdb
        /\ QueuedCommits(r.w.pending) = IF r.hash = NoCommit THEN <<>> ELSE <<r.hash>>
    /\ \A c \in 1..Len(commits) :
        \A r \in {Jump(World, c)} : r.w.vdb = vdb /\ r.w.pending = <<>>
    /\ \A AI \in SUBSET Paths, oi \in Outcomes, o \in TurnOutcomes :
        \A r \in {Record(World, AI, oi, o[1], o[2], o[3])} :
            /\ r.w.vdb = vdb
            /\ QueuedCommits(r.w.pending) = [k \in 1..Len(r.made) |-> r.made[k].id]

\* A record turn has just made two commits and the vector store has no
\* record of them.
C13_Witness ==
    /\ last.op = "record"
    /\ Len(last.made) = 2
    /\ head = last.made[2].id
    /\ \A rec \in vdb : rec.commit \notin {last.made[1].id, last.made[2].id}

\* C14: the pending-writes queue of one engine instance holds its entries in
\* the order their commits were created, and drain hands the entries to the
\* vector store in that same order, oldest first.
C14_QueueAndDrainFifo ==
    \A AI \in SUBSET Paths, oi \in Outcomes, o \in TurnOutcomes :
        \A r \in {Record(World, AI, oi, o[1], o[2], o[3])} :
            LET q == r.w.pending IN
            /\ \A i \in DOMAIN q, j \in DOMAIN q :
                i < j => /\ q[i].commit < q[j].commit
                         /\ r.w.commits[q[j].commit].parent = q[j - 1].commit
            /\ Sync(r.w).calls = QueuedCommits(q)

\* One engine instance has just made three commits in a row: the bootstrap
\* commit, a track commit and a snapshot.
C14_Witness ==
    /\ last.op = "record"
    /\ Len(last.made) = 3
    /\ last.made[1].id < last.made[2].id
    /\ last.made[2].id < last.made[3].id
    /\ Len(Sync([World EXCEPT !.pending =
                   [k \in 1..3 |-> [commit |-> last.made[k].id]]]).calls) = 3

\* C15: when drain returns, the pending-writes queue is empty however many
\* entries failed to insert; every entry is handled although an earlier one
\* failed, and a failed entry is not queued again.
C15_DrainEmptiesQueue ==
    \A AI \in SUBSET Paths, oi \in Outcomes, o \in TurnOutcomes :
        \A r \in {Record(World, AI, oi, o[1], o[2], o[3])} :
            \A s \in {Sync(r.w)} :
                /\ s.w.pending = <<>>
                /\ Len(s.calls) = Len(r.w.pending)
                /\ s.successful + s.failed = Len(r.w.pending)
                /\ Sync(s.w).calls = <<>>

\* A record turn has just made two commits; the drain of their two entries
\* fails on the first, handles the second and leaves an empty queue.
C15_Witness ==
    /\ last.op = "record"
    /\ Len(last.made) = 2
    /\ \A s \in {Sync([World EXCEPT !.pending =
                         [k \in 1..2 |-> [commit |-> last.made[k].id]]])} :
        /\ s.failed = 2
        /\ s.calls = <<last.made[1].id, last.made[2].id>>
        /\ s.w.pending = <<>>

\* C16: after a turn that made exactly one AI commit C (with prompt,
\* response and plan all non-empty), drain returns successful = 3 and
\* failed = 0 and the vector store then holds three records of C, one per
\* role.
C16_ScenarioS6 ==
    \A AI \in SUBSET Paths :
        \A r \in {Record(World, AI, "ok", "ok", "ok", "ok")} :
            ( /\ Len(r.made) = 1
              /\ r.made[1].role \in {"track", "snap"}
              /\ ~r.w.commits[r.made[1].id].by_user ) =>
                \A s \in {Sync(r.w)} :
                    /\ s.successful = 3
                    /\ s.failed = 0
                    /\ {rec \in s.w.vdb : rec.commit = r.made[1].id}
                          = {[commit |-> r.made[1].id, role |-> role] : role \in Roles}

\* A record turn has just made exactly one commit, an AI commit.
C16_Witness ==
    /\ last.op = "record"
    /\ Len(last.made) = 1
    /\ last.made[1].role \in {"track", "snap"}
    /\ ~commits[last.made[1].id].by_user
    /\ head = last.made[1].id

\* C17: the entries a record turn queues stay pending until the next sync:
\* when the turn made k >= 1 commits and mem_sync is the next tool called in
\* the server process, that sync finds the k entries and processes them.
C17_SyncFindsTurnEntries ==
    \A AI \in SUBSET Paths, oi \in Outcomes, o \in TurnOutcomes :
        \A r \in {Record(World, AI, oi, o[1], o[2], o[3])} :
            Len(r.made) >= 1 =>
                \A m \in {MemSync(r.w)} :
                    /\ m.found = Len(r.made)
                    /\ m.successful + m.failed = Len(r.made)

\* A record turn has just made commits and mem_sync is the next call.
C17_Witness ==
    /\ last.op = "record"
    /\ Len(last.made) >= 1
    /\ head = last.made[Len(last.made)].id
    /\ repo
    /\ MemSync(World).w = World

\* C18: history() emits every commit the engine ever created exactly once,
\* also when several branches share ancestors, and emits each commit after
\* its parent.
C18_HistoryEveryCommitOnce ==
    \A h \in {History(World)} :
        /\ \A c \in 1..Len(commits) :
              Cardinality({k \in DOMAIN h : h[k] = c}) = 1
        /\ \A k \in DOMAIN h :
              commits[h[k]].parent # NoCommit =>
                  \E j \in 1..(k - 1) : h[j] = commits[h[k]].parent

\* Two branches share an ancestor and the history is taken.
C18_Witness ==
    /\ last.op = "jump"
    /\ Len(cat.branches) >= 2
    /\ \E i, j \in DOMAIN cat.branches :
          /\ i # j
          /\ GetCommitHistory(commits, cat.branches[i].tip)
               \cap GetCommitHistory(commits, cat.branches[j].tip) # {}
    /\ Len(History(World)) >= 2

C20_CleanSnapshotAlwaysCommits ==
    \A byUser \in BOOLEAN :
        ( /\ head # NoCommit
          /\ \A p \in GetFilesByCommit(commits, head) :
                /\ ws[p] # Absent
                /\ HashObject(ws[p]) = commits[head].tree[p] ) =>
            \A r \in {Snapshot(World, TRUE, {}, byUser, "ok")} :
                /\ r.hash # NoCommit
                /\ r.w.commits[r.hash].tree = commits[head].tree
                /\ r.w.commits[r.hash].parent = head

\* C20: when HEAD tracks at least one file and every file tracked at HEAD is
\* present in the workspace with the same bytes as at HEAD, an all-files
\* snapshot produces a commit whose tree equals HEAD's tree (trees are
\* content-addressed, so equal trees have equal ids) and whose parent is
\* HEAD; untracked workspace files do not change this. When HEAD tracks no
\* file the snapshot makes no commit.
C20_SnapshotAllOfCleanWorkspace ==
    \A byUser \in BOOLEAN :
        ( /\ head # NoCommit
          /\ \A p \in GetFilesByCommit(commits, head) :
                /\ ws[p] # Absent
                /\ HashObject(ws[p]) = commits[head].tree[p] ) =>
            \A r \in {Snapshot(World, TRUE, {}, byUser, "ok")} :
                IF GetFilesByCommit(commits, head) = {}
                THEN r.hash = NoCommit /\ r.w = World
                ELSE /\ r.hash # NoCommit
                     /\ r.w.commits[r.hash].tree = commits[head].tree
                     /\ r.w.commits[r.hash].parent = head
                     /\ r.w.head = r.hash

\* An all-files snapshot has just committed a workspace that equals its
\* parent on the tracked files and holds an untracked file besides.
C20_Witness ==
    /\ last.op = "snapshot_all"
    /\ Len(last.made) = 1
    /\ head = last.made[1].id
    /\ commits[head].parent # NoCommit
    /\ commits[head].tree # EmptyTree
    /\ commits[head].tree = commits[commits[head].parent].tree
    /\ \E p \in Paths \ DOMAIN commits[head].tree : ws[p] # Absent

\* The results of the commit-advancing operations in world w when the
\* process is interrupted during the commit.
InterruptedOps(w) ==
    {Track(w, F, bu, cut) : F \in SUBSET Paths, bu \in BOOLEAN, cut \in Cuts}
    \cup {Snapshot(w, FALSE, F, bu, cut) :
            F \in (SUBSET Paths) \ {{}}, bu \in BOOLEAN, cut \in Cuts}
    \cup {Snapshot(w, TRUE, {}, bu, cut) : bu \in BOOLEAN, cut \in Cuts}
    \cup {Rename(w, old, new, FALSE, cut) :
            old \in Paths, new \in Paths, cut \in Cuts}
    \cup {Remove(w, p, confirm, FALSE, cut) :
            p \in Paths, confirm \in BOOLEAN, cut \in Cuts}

\* The tip of the catalog's current branch (NoCommit when there is none).
CurrentTip(c) ==
    IF c.exists /\ c.current # None /\ HasBranch(c, c.current)
    THEN TipCommit(c, c.current) ELSE NoCommit

\* C21: a commit-advancing operation is atomic with respect to refs. When it
\* is interrupted after it wrote the new commit, HEAD and the tip of the
\* catalog's current branch are both at the new commit or neither is: the
\* current tip is never at the new commit while HEAD is at the old one.
C21_RefsAdvanceTogether ==
    repo =>
        \A r \in InterruptedOps(World) :
            Len(r.w.commits) > Len(commits) =>
                (CurrentTip(r.w.cat) = Len(r.w.commits)) <=> (r.w.head = Len(r.w.commits))

\* An interrupted operation has left a commit in the store that HEAD is not at.
C21_Witness ==
    /\ last.op = "interrupted"
    /\ Len(commits) >= 2
    /\ head # Len(commits)
    /\ head # NoCommit

\* The operation with result r made no commit and left HEAD, the catalog and
\* the queue as they were.
RefsUntouched(r) ==
    /\ r.hash = NoCommit
    /\ r.w.head = head
    /\ r.w.cat = cat
    /\ r.w.pending = <<>>

\* C22: when the object-store write of a commit fails during track, snapshot,
\* rename or remove (no commit id is produced), HEAD, every branch tip and
\* current keep their pre-operation values and no pending write is queued.
C22_FailedWriteKeepsRefs ==
    repo => \A out \in {"empty", "raise"}, bu \in BOOLEAN :
        /\ \A F \in SUBSET Paths :
              Track(World, F, bu, "ok").hash # NoCommit =>
                  RefsUntouched(Track(World, F, bu, out))
        /\ \A F \in SUBSET Paths, all \in BOOLEAN :
              Snapshot(World, all, F, bu, "ok").hash # NoCommit =>
                  RefsUntouched(Snapshot(World, all, F, bu, out))
        /\ \A old \in Paths, new \in Paths :
              Rename(World, old, new, bu, "ok").hash # NoCommit =>
                  RefsUntouched(Rename(World, old, new, bu, out))
        /\ \A p \in Paths, confirm \in BOOLEAN :
              Remove(World, p, confirm, bu, "ok").hash # NoCommit =>
                  RefsUntouched(Remove(World, p, confirm, bu, out))

\* A commit write has failed: no commit was made and HEAD still names the
\* commit before the operation.
C22_Witness ==
    /\ last.op \in {"track", "snapshot", "snapshot_all", "rename"}
    /\ last.made = <<>>
    /\ head # NoCommit
    /\ CurrentTip(cat) # head

\* C23: a partial snapshot whose file_paths mix paths tracked at HEAD and
\* paths not tracked at HEAD skips the untracked ones and commits the tracked
\* ones: the paths of the new tree are the paths tracked at HEAD, a specified
\* tracked path that is present takes its workspace content, every other path
\* keeps HEAD's blob, and no untracked path enters the tree. When no
\* specified path is tracked, no commit is created, nothing changes and the
\* result is success.
C23_PartialSnapshotSkipsUntracked ==
    \A F \in (SUBSET Paths) \ {{}}, bu \in BOOLEAN :
        head # NoCommit =>
            \A r \in {Snapshot(World, FALSE, F, bu, "ok")} :
                IF F \cap GetFilesByCommit(commits, head) = {}
                THEN /\ r.hash = NoCommit
                     /\ r.status = "success"
                     /\ r.w = World
                ELSE /\ r.hash = Len(commits) + 1
                     /\ r.status = "success"
                     /\ r.w.head = r.hash
                     /\ r.w.commits[r.hash].parent = head
                     /\ DOMAIN r.w.commits[r.hash].tree = GetFilesByCommit(commits, head)
                     /\ \A p \in GetFilesByCommit(commits, head) :
                           r.w.commits[r.hash].tree[p] =
                               IF p \in F /\ ws[p] # Absent
                               THEN HashObject(ws[p])
                               ELSE commits[head].tree[p]

\* A partial snapshot over a changed tracked file and a present untracked
\* file makes a commit.
C23_Witness ==
    /\ head # NoCommit
    /\ \E p \in GetFilesByCommit(commits, head), q \in Paths \ GetFilesByCommit(commits, head) :
          /\ ws[p] # Absent
          /\ HashObject(ws[p]) # commits[head].tree[p]
          /\ ws[q] # Absent
          /\ ~MatchFile(ws, q)
          /\ Snapshot(World, FALSE, {p, q}, FALSE, "ok").hash # NoCommit

\* C24: rename(old, new) where old is not tracked at HEAD, and remove(p)
\* where p is not tracked at HEAD, create no commit and change nothing: the
\* workspace files, HEAD, the catalog and the pending-writes queue are the
\* same afterwards.
C24_UntrackedRenameRemoveNoop ==
    \A bu \in BOOLEAN, out \in Outcomes :
        /\ \A old \in Paths \ GetFilesByCommit(commits, head), new \in Paths :
              \A r \in {Rename(World, old, new, bu, out)} :
                  r.hash = NoCommit /\ r.w = World
        /\ \A p \in Paths \ GetFilesByCommit(commits, head), confirm \in BOOLEAN :
              \A r \in {Remove(World, p, confirm, bu, out)} :
                  r.hash = NoCommit /\ r.w = World

\* HEAD exists, an untracked file is present and another path is free, so
\* that a rename of the untracked file passes the existence tests.
C24_Witness ==
    /\ head # NoCommit
    /\ \E old \in Paths \ GetFilesByCommit(commits, head), new \in Paths :
          /\ ws[old] # Absent
          /\ ws[new] = Absent
          /\ Rename(World, old, new, FALSE, "ok").w = World
          /\ Remove(World, old, TRUE, FALSE, "ok").w = World

\* C25: status() partitions paths into pairwise disjoint sets such that a
\* path is reported deleted iff it is tracked at HEAD and absent from the
\* workspace, modified iff it is tracked at HEAD and present with a different
\* blob id, and untracked iff it is present, absent from HEAD and not
\* ignored; also for tracked files that match a .memignore pattern.
C25_StatusPartition ==
    \A st \in {Status(World)} :
        /\ st.deleted \cap st.modified = {}
        /\ st.deleted \cap st.untracked = {}
        /\ st.modified \cap st.untracked = {}
        /\ \A p \in Paths :
              /\ p \in st.deleted <=>
                    (p \in GetFilesByCommit(commits, head) /\ ws[p] = Absent)
              /\ p \in st.modified <=>
                    ( /\ p \in GetFilesByCommit(commits, head)
                      /\ ws[p] # Absent
                      /\ HashObject(ws[p]) # commits[head].tree[p] )
              /\ p \in st.untracked <=>
                    ( /\ p \notin GetFilesByCommit(commits, head)
                      /\ ws[p] # Absent
                      /\ (p = MemIgnore \/ ~MatchFile(ws, p)) )

\* A file tracked at HEAD is present in the workspace and matches a pattern
\* of .memignore.
C25_Witness ==
    /\ head # NoCommit
    /\ \E p \in GetFilesByCommit(commits, head) :
          /\ ws[p] # Absent
          /\ p # MemIgnore
          /\ MatchFile(ws, p)

\* C26: the path .memignore at the project root is never excluded by the
\* ignore patterns: for every pattern set (".*" and patterns naming
\* .memignore itself included) an untracked .memignore that exists is
\* accepted when it is passed to track and when the workspace scan finds it,
\* while the files of .mem/ and .git/ are always excluded.
C26_MemIgnoreNeverIgnored ==
    \A F \in SUBSET ScanPaths, tracked \in SUBSET (Paths \ {MemIgnore}),
       useTracked \in BOOLEAN :
        \A files \in {FilterNewFiles(ws, F, tracked, useTracked)} :
            /\ (MemIgnore \in F /\ ws[MemIgnore] # Absent) => MemIgnore \in files
            /\ files \cap ControlPaths = {}

\* A scan has accepted a .memignore that holds a pattern matching its own
\* name, with files of .mem/ and .git/ present.
C26_Witness ==
    /\ last.op = "scan"
    /\ ws[MemIgnore] \in {DefaultIgnore, "*", MemIgnore, TwoLines}
    /\ MemIgnore \in last.files
    /\ \A p \in ControlPaths : ws[p] # Absent

\* C27: chunk_text terminates and returns normally for every input string
\* and every chunk_size > overlap >= 0; for an input longer than chunk_size
\* it returns at least two chunks, each non-empty and of at most chunk_size
\* characters, and for a non-empty input of at most chunk_size characters it
\* returns exactly one chunk.
C27_ChunkTextReturns ==
    /\ [](ck.pc # "raised")
    /\ <>(ck.pc = "returned")
    /\ [](ck.pc = "returned" =>
            /\ Len(ck.text) > ck.chunk_size =>
                  /\ Len(ck.chunks) >= 2
                  /\ \A i \in DOMAIN ck.chunks :
                        ck.chunks[i] # <<>> /\ Len(ck.chunks[i]) <= ck.chunk_size
            /\ (ck.text # <<>> /\ Len(ck.text) <= ck.chunk_size) =>
                  Len(ck.chunks) = 1)

\* A call on a text longer than chunk_size has run a pass of the loop.
C27_Witness ==
    /\ ck.pc \in {"loop", "raised", "returned"}
    /\ Len(ck.text) > ck.chunk_size
    /\ ck.start > 0

\* C28: when files_changed lists the same path more than once, a turn of the
\* recorder writes at most one blob for that path per commit, both when the
\* path is untracked (track commit) and when it is tracked (partial
\* snapshot); the path appears once in the commit (a tree has one entry per
\* path).
C28_DuplicatesOneBlobWrite ==
    \A files_changed \in FileLists :
        (\A i \in DOMAIN files_changed : ws[files_changed[i]] # Absent) =>
            \A bw \in {RecordBlobWrites(World, files_changed)} :
                \A p \in Paths : bw.track[p] <= 1 /\ bw.snap[p] <= 1

\* HEAD exists; a turn that names an untracked file twice and a tracked file
\* writes blobs in its track commit and in its snapshot commit.
C28_Witness ==
    /\ head # NoCommit
    /\ \E p \in Paths, q \in GetFilesByCommit(commits, head) :
          \E bw \in {RecordBlobWrites(World, <<p, p, q>>)} :
              bw.track[p] >= 1 /\ bw.snap[q] >= 1

\* C29: after the bootstrap (init) of a project whose object store was
\* absent, .memignore exists in the workspace and is tracked at HEAD, whether
\* or not a .memignore file existed in the project before; this holds for
\* init called directly and for the bootstrap the recorder runs.
C29_BootstrapTracksMemIgnore ==
    ~repo =>
        /\ \A r \in {InitRepo(World, "ok")} :
              /\ r.w.repo
              /\ r.w.ws[MemIgnore] # Absent
              /\ MemIgnore \in GetFilesByCommit(r.w.commits, r.w.head)
        /\ \A r \in {Record(World, {}, "ok", "ok", "ok", "ok")} :
              /\ r.w.repo
              /\ r.w.ws[MemIgnore] # Absent
              /\ MemIgnore \in GetFilesByCommit(r.w.commits, r.w.head)

\* A project without object store in which a .memignore already exists.
C29_Witness ==
    /\ ~repo
    /\ ws[MemIgnore] # Absent
    /\ InitRepo(World, "ok").w.repo

\* C30: a commit made while the catalog's current names an existing branch
\* changes only that branch's tip: the set of branch names, the tip of every
\* other branch and the value of current are unchanged, and the tip of the
\* current branch is the new commit.
C30_CommitMovesCurrentTipOnly ==
    (cat.exists /\ cat.current # None /\ HasBranch(cat, cat.current)) =>
        \A r \in CommitOps(World) :
            r.hash # NoCommit =>
                /\ BranchNames(r.w.cat) = BranchNames(cat)
                /\ Len(r.w.cat.branches) = Len(cat.branches)
                /\ r.w.cat.current = cat.current
                /\ TipCommit(r.w.cat, cat.current) = r.hash
                /\ \A n \in BranchNames(cat) \ {cat.current} :
                      TipCommit(r.w.cat, n) = TipCommit(cat, n)

\* A commit has just been made on the current branch while another branch
\* exists.
C30_Witness ==
    /\ Len(last.made) >= 1
    /\ last.op \in {"track", "snapshot", "snapshot_all", "rename", "record"}
    /\ Len(cat.branches) >= 2
    /\ cat.current # None
    /\ HasBranch(cat, cat.current)
    /\ TipCommit(cat, cat.current) = head
    /\ commits[head].parent # NoCommit
    /\ \E n \in BranchNames(cat) \ {cat.current} :
          TipCommit(cat, n) \notin {NoCommit, head}


\* The branches of the catalog c whose tip is the commit h.
BranchesAt(c, h) == {n \in BranchNames(c) : TipCommit(c, n) = h}

\* The catalog c with one more branch whose tip is h as well, listed before
\* or after the branches of c.
TwinCatalogs(c, h) ==
    {[c EXCEPT !.branches = <<[name |-> NextDevelopBranch(c), tip |-> h]>> \o @],
     [c EXCEPT !.branches = Append(@, [name |-> NextDevelopBranch(c), tip |-> h])]}

\* C31: after jump(c) where c is the tip of an existing branch, the next
\* commit creates no develop/N branch: it advances exactly one branch B that
\* had tip c to the new commit and makes B current, and every other branch
\* keeps its tip, the other branches with tip c included (the catalog of the
\* state and the same catalog with one more branch at c).
C31_CommitAfterJumpToTipAdvancesBranch ==
    (last.op = "jump" /\ cat.exists /\ cat.current = None
        /\ head # NoCommit /\ BranchesAt(cat, head) # {}) =>
        \A c \in {cat} \cup TwinCatalogs(cat, head) :
        \A r \in CommitOps([World EXCEPT !.cat = c]) :
            r.hash # NoCommit =>
                /\ BranchNames(r.w.cat) = BranchNames(c)
                /\ Len(r.w.cat.branches) = Len(c.branches)
                /\ r.w.cat.current \in BranchesAt(c, head)
                /\ TipCommit(r.w.cat, r.w.cat.current) = r.hash
                /\ r.w.head = r.hash
                /\ \A n \in BranchNames(c) \ {r.w.cat.current} :
                      TipCommit(r.w.cat, n) = TipCommit(c, n)

\* A jump has just gone to the tip of a branch of a catalog that also holds
\* a develop branch, and a commit made from there lands on that branch.
C31_Witness ==
    /\ last.op = "jump"
    /\ cat.exists
    /\ cat.current = None
    /\ head # NoCommit
    /\ BranchesAt(cat, head) # {}
    /\ Len(cat.branches) >= 2
    /\ \E r \in CommitOps(World) :
          /\ r.hash # NoCommit
          /\ r.w.cat.current \in BranchesAt(cat, head)
          /\ TipCommit(r.w.cat, r.w.cat.current) = r.hash


\* C32: a partial snapshot that names a tracked path whose file is missing
\* from the workspace does not fail and does not drop the path: with a
\* working store it returns success with a commit, and the commit keeps the
\* path with HEAD's blob id. Every commit of a partial snapshot has HEAD as
\* parent and tracks exactly the paths HEAD tracks.
C32_PartialSnapshotKeepsMissingPath ==
    \A F \in (SUBSET Paths) \ {{}}, bu \in BOOLEAN :
        LET tracked == GetFilesByCommit(commits, head)
            missing == {p \in F \cap tracked : ws[p] = Absent}
        IN /\ missing # {} =>
                \E r \in {Snapshot(World, FALSE, F, bu, "ok")} :
                    /\ r.status = "success"
                    /\ r.hash = Len(commits) + 1
                    /\ \A p \in missing :
                          /\ p \in DOMAIN r.w.commits[r.hash].tree
                          /\ r.w.commits[r.hash].tree[p] = commits[head].tree[p]
           /\ \A out \in Outcomes :
                \E r \in {Snapshot(World, FALSE, F, bu, out)} :
                    r.hash # NoCommit =>
                        /\ r.w.commits[r.hash].parent = head
                        /\ DOMAIN r.w.commits[r.hash].tree = tracked

\* A partial snapshot has just committed a path whose file was missing: the
\* path is still tracked, with the blob of the parent, and absent from the
\* workspace.
C32_Witness ==
    /\ last.op = "snapshot"
    /\ Len(last.made) = 1
    /\ commits[head].parent # NoCommit
    /\ \E p \in last.files :
          /\ ws[p] = Absent
          /\ p \in DOMAIN commits[head].tree
          /\ commits[head].tree[p] = commits[commits[head].parent].tree[p]


\* C33: the commit created by rename(old, new) on HEAD H tracks exactly the
\* paths tracked at H without old and with new; no other workspace file that
\* was untracked at H is added.
C33_RenameTracksOldSwappedForNew ==
    repo =>
        \A old \in Paths, new \in Paths, out \in Outcomes :
            \E r \in {Rename(World, old, new, FALSE, out)} :
                r.hash # NoCommit =>
                    DOMAIN r.w.commits[r.hash].tree
                        = (GetFilesByCommit(commits, head) \ {old}) \cup {new}

\* A rename has just made a commit that tracks a file which its parent did
\* not track and which is not the new name.
C33_Witness ==
    /\ last.op = "rename"
    /\ Len(last.made) = 1
    /\ commits[head].op = "rename"
    /\ commits[head].parent # NoCommit
    /\ \E p \in DOMAIN commits[head].tree :
          /\ p \notin DOMAIN commits[commits[head].parent].tree
          /\ \E q \in DOMAIN commits[head].tree \ {p} :
                q \notin DOMAIN commits[commits[head].parent].tree


\* The roles of the commits a turn made.
RolesMade(made) == {made[i].role : i \in DOMAIN made}

\* The commits a turn made are the commits it added to the history, in
\* order, and HEAD is at the last of them.
MadeIsDurable(w, r) ==
    /\ Len(r.w.commits) = Len(w.commits) + Len(r.made)
    /\ \A i \in DOMAIN r.made : r.made[i].id = Len(w.commits) + i
    /\ \A i \in 1..Len(w.commits) : r.w.commits[i] = w.commits[i]
    /\ r.made # <<>> => r.w.head = r.made[Len(r.made)].id

\* C34: the recorder stops at the first failed step. When the manual-edit
\* snapshot does not return success the turn makes no track and no AI
\* snapshot commit; when the track step does not return success the turn
\* makes no AI snapshot commit. The commits of the earlier steps stay in the
\* history and HEAD is at the last commit the turn created.
C34_RecorderStopsAtFirstFailure ==
    \A AI \in (SUBSET Paths) \ {{}}, oi \in InitOutcomes, o \in TurnOutcomes :
        LET ri == IF repo THEN Ret(World, "success", NoCommit) ELSE InitRepo(World, oi)
            st == Status(ri.w)
            manual_edit_files == st.modified \ AI
            rm == IF manual_edit_files # {}
                  THEN Snapshot(ri.w, FALSE, manual_edit_files, TRUE, o[1])
                  ELSE Ret(ri.w, "success", NoCommit)
            files_to_track == AI \cap st.untracked
            rt == IF files_to_track # {} THEN Track(rm.w, files_to_track, FALSE, o[2])
                  ELSE Ret(rm.w, "success", NoCommit)
            r == Record(World, AI, oi, o[1], o[2], o[3])
        IN /\ MadeIsDurable(World, r)
           /\ rm.status # "success" =>
                /\ r.status = "error"
                /\ RolesMade(r.made) \cap {"track", "snap"} = {}
                /\ r.w.commits = rm.w.commits
           /\ (rm.status = "success" /\ rt.status # "success") =>
                /\ r.status = "error"
                /\ "snap" \notin RolesMade(r.made)
                /\ r.w.commits = rt.w.commits

\* A state from which a turn commits the manual edits and the new file and
\* then fails at the snapshot of the AI-changed file: the turn ends in an
\* error with its two commits in the history and HEAD at the second.
C34_Witness ==
    /\ repo
    /\ head # NoCommit
    /\ \E AI \in SUBSET Paths :
        \E r \in {Record(World, AI, "ok", "ok", "ok", "raise")} :
            /\ r.status = "error"
            /\ Len(r.made) = 2
            /\ r.made[1].role = "manual"
            /\ r.made[2].role = "track"
            /\ r.w.head = r.made[2].id
            /\ Len(r.w.commits) = Len(commits) + 2


\* C35: snapshot returns a failure status whenever it attempted to create a
\* commit and the commit was not created, in the all-files form as well as
\* in the partial form: where a snapshot with a working store makes a
\* commit, the same snapshot with a failing store does not return success.
C35_FailedSnapshotReportsFailure ==
    repo =>
        \A out \in {"empty", "raise"}, bu \in BOOLEAN :
            /\ \A F \in (SUBSET Paths) \ {{}} :
                  Snapshot(World, FALSE, F, bu, "ok").hash # NoCommit =>
                      \E r \in {Snapshot(World, FALSE, F, bu, out)} :
                          r.hash = NoCommit /\ r.status # "success"
            /\ Snapshot(World, TRUE, {}, bu, "ok").hash # NoCommit =>
                  \E r \in {Snapshot(World, TRUE, {}, bu, out)} :
                      r.hash = NoCommit /\ r.status # "success"

\* An all-files snapshot of tracked files has just run with a failing store:
\* it made no commit and left the tip of the current branch empty.
C35_Witness ==
    /\ last.op = "snapshot_all"
    /\ last.made = <<>>
    /\ head # NoCommit
    /\ GetFilesByCommit(commits, head) # {}
    /\ cat.current # None
    /\ HasBranch(cat, cat.current)
    /\ TipCommit(cat, cat.current) = NoCommit


\* C36: the parent_hash stored in a pending-write entry equals the parent of
\* the entry's commit, the HEAD the commit was built on; it is empty only
\* for a first commit, which has no parent.
C36_PendingParentIsCommitParent ==
    \A r \in CommitOps(World) :
        \A k \in DOMAIN r.w.pending :
            /\ IsCommit(r.w.commits, r.w.pending[k].commit)
            /\ r.w.pending[k].parent_hash
                  = r.w.commits[r.w.pending[k].commit].parent
            /\ r.w.pending[k].commit = r.hash => r.w.pending[k].parent_hash = head

\* A commit has been made on top of another one, and a commit made from
\* here has a parent while its pending-write entry has none.
C36_Witness ==
    /\ head # NoCommit
    /\ commits[head].parent # NoCommit
    /\ Len(last.made) >= 1
    /\ \E r \in CommitOps(World) :
          /\ r.hash # NoCommit
          /\ r.w.commits[r.hash].parent = head
          /\ Len(r.w.pending) = 1
          /\ r.w.pending[1].commit = r.hash
          /\ r.w.pending[1].parent_hash = NoCommit


\* Every commit of the store cs is the tip of a branch of the catalog c or
\* an ancestor of one.
AllReachableFromTips(cs, c) ==
    \A k \in 1..Len(cs) : \E t \in Tips(c) : k \in GetCommitHistory(cs, t)

\* C37: in every state a single process reaches through track, snapshot,
\* rename, remove, jump and record, every commit the engine ever created is
\* the tip of at least one branch of the catalog or an ancestor of one.
C37_EveryCommitReachableFromATip ==
    /\ AllReachableFromTips(commits, cat)
    /\ \A w \in AfterAnyOp(World) : AllReachableFromTips(w.commits, w.cat)

\* A commit write has failed on the only branch: the store holds a commit
\* and no branch tip names a commit.
C37_Witness ==
    /\ Len(commits) >= 1
    /\ cat.exists
    /\ Len(cat.branches) >= 1
    /\ \A t \in Tips(cat) : t = NoCommit
    /\ last.made = <<>>
    /\ last.op \in {"track", "snapshot", "snapshot_all", "rename", "record"}


\* Both processes have finished their commit.
BothDone == \A p \in Procs : procs[p].pc = "done"

\* C38: when two processes run commit-advancing operations on the same
\* project concurrently, with their catalog load, catalog save and HEAD
\* update steps interleaved in any order, then after both have finished HEAD
\* and the tip of the catalog's current branch are the same commit, the
\* commit of the process that updated last.
C38_ConcurrentCommitsLastWins ==
    BothDone =>
        /\ head = last.made[Len(last.made)].id
        /\ CurrentTip(cat) = head

\* Both processes have finished, each with its own commit, and the one that
\* updated HEAD last had saved the catalog first.
C38_Witness ==
    /\ BothDone
    /\ Len(last.made) = 2
    /\ head = last.made[2].id
    /\ CurrentTip(cat) = last.made[1].id
    /\ last.made[1].id # last.made[2].id

====
